---- MODULE Spec2Model ----
(***************************************************************************)
(* Starfish S3 gateway backend (backend/starfish): the query cache, the    *)
(* listing operations of the backend and the listing converter.            *)
(*                                                                         *)
(* The specifications share the variables below:                           *)
(*   SpecCache   - QueryCache used by concurrent goroutines (cache.go)     *)
(*   SpecBackend - ListObjects / ListObjectsV2 over collections, cache and *)
(*                 the upstream query, with Shutdown and cache statistics  *)
(*   SpecConv    - convertToListObjects(V2)Result as a function of its     *)
(*                 inputs                                                  *)
(*   SpecRewrite - applyPathRewrite as a function of its inputs            *)
(*   SpecRepeat  - applyPathRewrite called repeatedly on the same inputs   *)
(*   SpecPages   - a client paging through convertToListObjectsV2Result    *)
(*   SpecHead    - HeadObject and the listings over the same entries       *)
(*   SpecFormat  - formatSizeWithUnit as a function of its inputs          *)
(*   SpecLoad    - LoadPathRewriteConfig and validatePathRewriteConfig     *)
(* Strings are sequences of one-character strings; time is counted in      *)
(* units of 30 minutes.                                                    *)
(***************************************************************************)
EXTENDS Integers, Sequences, FiniteSets, TLC

VARIABLES
    data,         \* QueryCache.data: map cache key -> CachedResult
    defaultTTL,   \* QueryCache.defaultTTL
    now,          \* the wall clock read by time.Now()
    readers,      \* goroutines holding QueryCache.mutex for reading
    writer,       \* goroutine holding QueryCache.mutex for writing, or NoThread
    pc,           \* per goroutine: position inside the cache method it runs
    tl,           \* per goroutine: the call's arguments and locals
    ret,          \* per goroutine: what its last completed call returned
    crashed,      \* the runtime aborted the process (fatal error)
    lastSet,      \* history: per key, the arguments of the Set whose entry is in the map
    collections,  \* StarfishBackend.collections: bucket -> Collections: tag
    resp,         \* the request and response of the last listing call
    cin,          \* SpecConv, SpecRewrite: the inputs of the function applied
    cout          \* SpecConv, SpecRewrite: its result

cacheVars == <<data, defaultTTL, now, readers, writer, pc, tl, ret, crashed, lastSet>>
backendVars == <<collections, resp>>
convVars == <<cin, cout>>
vars == <<data, defaultTTL, now, readers, writer, pc, tl, ret, crashed, lastSet,
          collections, resp, cin, cout>>

-----------------------------------------------------------------------------
(* Bounds *)

MaxTime == 3
MaxHits == 1
MaxEntries == 5
MaxKeysBound == 2
MaxRules == 3

Threads == {"g1", "g2"}
NoThread == "none"
CacheKeys == {"k1", "k2"}
\* the (data, volumeAndPath) argument pairs of the Set calls
SetArgs == {<<"d1", "vp1">>, <<"d2", "vp2">>}
ConfigTTLs == {0, 1}

-----------------------------------------------------------------------------
(* Go map helpers *)

MapDelete(m, k) == [x \in DOMAIN m \ {k} |-> m[x]]

MapStore(m, k, v) == [x \in DOMAIN m \cup {k} |-> IF x = k THEN v ELSE m[x]]

EmptyMap == [x \in {} |-> TRUE]

\* the nil returned by Get
Absent == [nil |-> TRUE]

\* a non-nil *StarfishQueryResponse returned by Get
Found(d) == [nil |-> FALSE, data |-> d]

-----------------------------------------------------------------------------
(* QueryCache (cache.go) *)

\* one hour, in clock units of 30 minutes
Hour == 2

\* NewStarfishBackend: a zero CacheTTL is replaced by one hour
ConfiguredTTL(cfgTTL) == IF cfgTTL = 0 THEN Hour ELSE cfgTTL

\* time.Time.After
After(t, u) == t > u

\* Set with the replaced entry's hit counter carried over
SetEntryKeepHits(d, key, value, volumeAndPath, t, ttl) ==
    MapStore(d, key, [Data |-> value, CachedAt |-> t, ExpiresAt |-> t + ttl,
                      VolumeAndPath |-> volumeAndPath,
                      HitCount |-> IF key \in DOMAIN d THEN d[key].HitCount ELSE 0])

\* the map after the body of Set
SetEntry(d, key, value, volumeAndPath, t, ttl) ==
    MapStore(d, key, [Data |-> value, CachedAt |-> t, ExpiresAt |-> t + ttl,
                      VolumeAndPath |-> volumeAndPath, HitCount |-> 0])

\* Get finding no entry it can return
GetOutcomeNeverHit(d, key, t) == IF key \notin DOMAIN d THEN "miss" ELSE "expired"

\* Get, lines 60-80: "miss", "expired" or "hit"
GetOutcome(d, key, t) ==
    IF key \notin DOMAIN d THEN "miss"
    ELSE IF After(t, d[key].ExpiresAt) THEN "expired"
    ELSE "hit"

\* Stats, lines 152-179 (the ratio is kept as the pair hits / entries)
StatsOf(d, t) ==
    LET keys == DOMAIN d
        validKeys == {k \in keys : ~After(t, d[k].ExpiresAt)}
        RECURSIVE Sum(_)
        Sum(S) == IF S = {} THEN 0
                  ELSE LET k == CHOOSE x \in S : TRUE IN d[k].HitCount + Sum(S \ {k})
        totalHits == Sum(validKeys)
    IN [total_entries |-> Cardinality(keys),
        valid_entries |-> Cardinality(validKeys),
        expired_entries |-> Cardinality(keys \ validKeys),
        total_hits |-> totalHits,
        cache_hit_ratio |-> IF Cardinality(keys) > 0
                            THEN <<totalHits, Cardinality(keys)>> ELSE <<0, 1>>]

Idle == [op |-> "none"]

\* pcs at which the next step of the goroutine reads or writes c.data or an entry
MutatingPcs == {"get_delete", "get_hit_store", "set_body", "inv_body", "clear_body"}
ReadingPcs == {"get_lookup", "get_hit_load", "stats_body"}
AccessPcs == MutatingPcs \cup ReadingPcs

\* sync.RWMutex: RLock is granted while no writer holds the lock
CanRLock == writer = NoThread

\* sync.RWMutex: Lock is granted while nobody holds the lock
CanLock == writer = NoThread /\ readers = {}

\* a hit counter bound: no new Get starts once an entry has MaxHits hits
HitsBelowBound == \A k \in DOMAIN data : data[k].HitCount < MaxHits

\* Get, line 57
GetRLock(t, key) ==
    /\ ~crashed /\ pc[t] = "idle" /\ CanRLock /\ HitsBelowBound
    /\ readers' = readers \cup {t}
    /\ pc' = [pc EXCEPT ![t] = "get_lookup"]
    /\ tl' = [tl EXCEPT ![t] = [op |-> "get", key |-> key]]
    /\ UNCHANGED <<data, defaultTTL, now, writer, ret, crashed, lastSet>>

\* Get, lines 60-80: the map lookup and the expiry test
GetLookup(t) ==
    /\ ~crashed /\ pc[t] = "get_lookup"
    /\ LET key == tl[t].key
           outcome == GetOutcome(data, key, now)
       IN CASE outcome = "miss" ->
                 /\ ret' = [ret EXCEPT ![t] = Absent]
                 /\ tl' = [tl EXCEPT ![t] = [op |-> "get", key |-> key, outcome |-> outcome,
                                             at |-> now]]
                 /\ pc' = [pc EXCEPT ![t] = "r_unlock"]
            [] outcome = "expired" ->
                 /\ tl' = [tl EXCEPT ![t] = [op |-> "get", key |-> key, outcome |-> outcome,
                                             at |-> now, cached |-> data[key]]]
                 /\ pc' = [pc EXCEPT ![t] = "get_delete"]
                 /\ UNCHANGED ret
            [] outcome = "hit" ->
                 /\ tl' = [tl EXCEPT ![t] = [op |-> "get", key |-> key, outcome |-> outcome,
                                             at |-> now, cached |-> data[key]]]
                 /\ pc' = [pc EXCEPT ![t] = "get_hit_load"]
                 /\ UNCHANGED ret
    /\ UNCHANGED <<data, defaultTTL, now, readers, writer, crashed, lastSet>>

\* another goroutine is about to touch the map while this one writes it
MapRace(t) == \E u \in Threads \ {t} : pc[u] \in {"get_lookup", "get_delete", "stats_body"}

\* Get, lines 72-79: delete(c.data, key) under the read lock, return nil.
\* A map write concurrent with another map access is a data race: the runtime
\* either goes on or aborts with "concurrent map read and map write".
GetDelete(t) ==
    /\ ~crashed /\ pc[t] = "get_delete"
    /\ \/ /\ data' = MapDelete(data, tl[t].key)
          /\ lastSet' = [lastSet EXCEPT ![tl[t].key] = Idle]
          /\ ret' = [ret EXCEPT ![t] = Absent]
          /\ pc' = [pc EXCEPT ![t] = "r_unlock"]
          /\ UNCHANGED crashed
       \/ /\ MapRace(t)
          /\ crashed' = TRUE
          /\ UNCHANGED <<data, lastSet, ret, pc>>
    /\ UNCHANGED <<defaultTTL, now, readers, writer, tl>>

\* Get, line 83, first half of cached.HitCount++: load the counter
GetHitLoad(t) ==
    /\ ~crashed /\ pc[t] = "get_hit_load"
    /\ LET key == tl[t].key
           cur == IF key \in DOMAIN data THEN data[key].HitCount ELSE tl[t].cached.HitCount
       IN tl' = [tl EXCEPT ![t] = [op |-> "get", key |-> key, outcome |-> "hit",
                                   at |-> tl[t].at, cached |-> tl[t].cached, loaded |-> cur]]
    /\ pc' = [pc EXCEPT ![t] = "get_hit_store"]
    /\ UNCHANGED <<data, defaultTTL, now, readers, writer, ret, crashed, lastSet>>

\* Get, lines 83-91, second half of cached.HitCount++: store the counter, and
\* return cached.Data.  The entry can only have left the map through another
\* Get's delete; the store then goes to the unlinked object.
GetHitStore(t) ==
    /\ ~crashed /\ pc[t] = "get_hit_store"
    /\ LET key == tl[t].key
       IN IF key \in DOMAIN data
          THEN /\ data' = [data EXCEPT ![key].HitCount = tl[t].loaded + 1]
               /\ lastSet' = [lastSet EXCEPT ![key].hit = TRUE]
          ELSE UNCHANGED <<data, lastSet>>
    /\ ret' = [ret EXCEPT ![t] = Found(tl[t].cached.Data)]
    /\ pc' = [pc EXCEPT ![t] = "r_unlock"]
    /\ UNCHANGED <<defaultTTL, now, readers, writer, tl, crashed>>

\* the deferred c.mutex.RUnlock() of Get and Stats; the caller takes the result
RUnlock(t) ==
    /\ ~crashed /\ pc[t] = "r_unlock"
    /\ readers' = readers \ {t}
    /\ pc' = [pc EXCEPT ![t] = "idle"]
    /\ tl' = [tl EXCEPT ![t] = Idle]
    /\ ret' = [ret EXCEPT ![t] = Idle]
    /\ UNCHANGED <<data, defaultTTL, now, writer, crashed, lastSet>>

\* Set, line 96
SetLock(t, key, value, volumeAndPath) ==
    /\ ~crashed /\ pc[t] = "idle" /\ CanLock
    /\ writer' = t
    /\ pc' = [pc EXCEPT ![t] = "set_body"]
    /\ tl' = [tl EXCEPT ![t] = [op |-> "set", key |-> key, value |-> value,
                                volumeAndPath |-> volumeAndPath]]
    /\ UNCHANGED <<data, defaultTTL, now, readers, ret, crashed, lastSet>>

\* Set, lines 99-106
SetBody(t) ==
    /\ ~crashed /\ pc[t] = "set_body"
    /\ data' = SetEntry(data, tl[t].key, tl[t].value, tl[t].volumeAndPath, now, defaultTTL)
    /\ lastSet' = [lastSet EXCEPT ![tl[t].key] =
                      [op |-> "set", value |-> tl[t].value,
                       volumeAndPath |-> tl[t].volumeAndPath, at |-> now, hit |-> FALSE,
                       replaced |-> tl[t].key \in DOMAIN data]]
    /\ pc' = [pc EXCEPT ![t] = "w_unlock"]
    /\ UNCHANGED <<defaultTTL, now, readers, writer, tl, ret, crashed>>

\* Invalidate that drops every entry
InvalidatedAll(d, key) == EmptyMap

\* Invalidate, lines 121-122: the map after the delete of key, if it exists
Invalidated(d, key) == IF key \in DOMAIN d THEN MapDelete(d, key) ELSE d

\* Invalidate, line 118
InvalidateLock(t, key) ==
    /\ ~crashed /\ pc[t] = "idle" /\ CanLock
    /\ writer' = t
    /\ pc' = [pc EXCEPT ![t] = "inv_body"]
    /\ tl' = [tl EXCEPT ![t] = [op |-> "invalidate", key |-> key]]
    /\ UNCHANGED <<data, defaultTTL, now, readers, ret, crashed, lastSet>>

\* Invalidate, lines 121-129
InvalidateBody(t) ==
    /\ ~crashed /\ pc[t] = "inv_body"
    /\ data' = Invalidated(data, tl[t].key)
    /\ lastSet' = [lastSet EXCEPT ![tl[t].key] = Idle]
    /\ tl' = [tl EXCEPT ![t] = [op |-> "invalidate", key |-> tl[t].key,
                                exists |-> tl[t].key \in DOMAIN data]]
    /\ pc' = [pc EXCEPT ![t] = "w_unlock"]
    /\ UNCHANGED <<defaultTTL, now, readers, writer, ret, crashed>>

\* Clear that leaves the map as it is
ClearedNothing(d) == d

\* Clear, line 138: c.data = make(map[string]*CachedResult)
Cleared(d) == EmptyMap

\* Clear, line 134
ClearLock(t) ==
    /\ ~crashed /\ pc[t] = "idle" /\ CanLock
    /\ writer' = t
    /\ pc' = [pc EXCEPT ![t] = "clear_body"]
    /\ tl' = [tl EXCEPT ![t] = [op |-> "clear"]]
    /\ UNCHANGED <<data, defaultTTL, now, readers, ret, crashed, lastSet>>

\* Clear, lines 137-144: the count goes to the metrics only, nothing is returned
ClearBody(t) ==
    /\ ~crashed /\ pc[t] = "clear_body"
    /\ data' = Cleared(data)
    /\ lastSet' = [k \in CacheKeys |-> Idle]
    /\ tl' = [tl EXCEPT ![t] = [op |-> "clear", clearedCount |-> Cardinality(DOMAIN data)]]
    /\ pc' = [pc EXCEPT ![t] = "w_unlock"]
    /\ UNCHANGED <<defaultTTL, now, readers, writer, ret, crashed>>

\* the deferred c.mutex.Unlock() of Set, Invalidate and Clear
WUnlock(t) ==
    /\ ~crashed /\ pc[t] = "w_unlock"
    /\ writer' = NoThread
    /\ pc' = [pc EXCEPT ![t] = "idle"]
    /\ tl' = [tl EXCEPT ![t] = Idle]
    /\ UNCHANGED <<data, defaultTTL, now, readers, ret, crashed, lastSet>>

\* Stats, line 149
StatsRLock(t) ==
    /\ ~crashed /\ pc[t] = "idle" /\ CanRLock
    /\ readers' = readers \cup {t}
    /\ pc' = [pc EXCEPT ![t] = "stats_body"]
    /\ tl' = [tl EXCEPT ![t] = [op |-> "stats"]]
    /\ UNCHANGED <<data, defaultTTL, now, writer, ret, crashed, lastSet>>

\* Stats, lines 152-179; the locals keep the time and the map it computed from
StatsBody(t) ==
    /\ ~crashed /\ pc[t] = "stats_body"
    /\ ret' = [ret EXCEPT ![t] = StatsOf(data, now)]
    /\ tl' = [tl EXCEPT ![t] = [op |-> "stats", at |-> now, seen |-> data]]
    /\ pc' = [pc EXCEPT ![t] = "r_unlock"]
    /\ UNCHANGED <<data, defaultTTL, now, readers, writer, crashed, lastSet>>

\* the clock advances
Tick ==
    /\ ~crashed /\ now < MaxTime
    /\ now' = now + 1
    /\ UNCHANGED <<data, defaultTTL, readers, writer, pc, tl, ret, crashed, lastSet>>

BackendIdle == collections = EmptyMap /\ resp = Idle
ConvIdle == cin = Idle /\ cout = Idle

\* NewQueryCache, lines 47-53, called from NewStarfishBackend
InitCache ==
    /\ data = EmptyMap
    /\ defaultTTL \in {ConfiguredTTL(c) : c \in ConfigTTLs}
    /\ now = 0
    /\ readers = {}
    /\ writer = NoThread
    /\ pc = [t \in Threads |-> "idle"]
    /\ tl = [t \in Threads |-> Idle]
    /\ ret = [t \in Threads |-> Idle]
    /\ crashed = FALSE
    /\ lastSet = [k \in CacheKeys |-> Idle]
    /\ BackendIdle /\ ConvIdle

NextCache ==
    \/ \E t \in Threads, k \in CacheKeys : GetRLock(t, k) /\ UNCHANGED <<backendVars, convVars>>
    \/ \E t \in Threads : GetLookup(t) /\ UNCHANGED <<backendVars, convVars>>
    \/ \E t \in Threads : GetDelete(t) /\ UNCHANGED <<backendVars, convVars>>
    \/ \E t \in Threads : GetHitLoad(t) /\ UNCHANGED <<backendVars, convVars>>
    \/ \E t \in Threads : GetHitStore(t) /\ UNCHANGED <<backendVars, convVars>>
    \/ \E t \in Threads : RUnlock(t) /\ UNCHANGED <<backendVars, convVars>>
    \/ \E t \in Threads, k \in CacheKeys, a \in SetArgs :
          SetLock(t, k, a[1], a[2]) /\ UNCHANGED <<backendVars, convVars>>
    \/ \E t \in Threads : SetBody(t) /\ UNCHANGED <<backendVars, convVars>>
    \/ \E t \in Threads, k \in CacheKeys : InvalidateLock(t, k) /\ UNCHANGED <<backendVars, convVars>>
    \/ \E t \in Threads : InvalidateBody(t) /\ UNCHANGED <<backendVars, convVars>>
    \/ \E t \in Threads : ClearLock(t) /\ UNCHANGED <<backendVars, convVars>>
    \/ \E t \in Threads : ClearBody(t) /\ UNCHANGED <<backendVars, convVars>>
    \/ \E t \in Threads : WUnlock(t) /\ UNCHANGED <<backendVars, convVars>>
    \/ \E t \in Threads : StatsRLock(t) /\ UNCHANGED <<backendVars, convVars>>
    \/ \E t \in Threads : StatsBody(t) /\ UNCHANGED <<backendVars, convVars>>
    \/ Tick /\ UNCHANGED <<backendVars, convVars>>

SpecCache == InitCache /\ [][NextCache]_vars

-----------------------------------------------------------------------------
(* Go strings: sequences of one-character strings, compared bytewise *)

\* the characters the model uses, in ascending byte order
CharOrder == <<" ", "\"", ",", "-", ".", "/", "0", "1", "2", "3", "4", "5", "6", "7", "8", "9",
               ":", "a", "b", "c", "d", "f", "v", "x", "y">>

Code(c) == CHOOSE i \in 1..Len(CharOrder) : CharOrder[i] = c

\* the Go string comparison a <= b
RECURSIVE StrLE(_, _)
StrLE(a, b) ==
    IF a = <<>> THEN TRUE
    ELSE IF b = <<>> THEN FALSE
    ELSE IF a[1] = b[1] THEN StrLE(Tail(a), Tail(b))
    ELSE Code(a[1]) < Code(b[1])

\* strings.HasPrefix
HasPrefix(s, prefix) == Len(prefix) <= Len(s) /\ SubSeq(s, 1, Len(prefix)) = prefix

\* strings.TrimPrefix
TrimPrefix(s, prefix) == IF HasPrefix(s, prefix) THEN SubSeq(s, Len(prefix) + 1, Len(s)) ELSE s

\* strings.Index: the 0-based index of the first occurrence of sub in s, or -1
Index(s, sub) ==
    LET at == {i \in 0..(Len(s) - Len(sub)) : SubSeq(s, i + 1, i + Len(sub)) = sub}
    IN IF at = {} THEN -1 ELSE CHOOSE i \in at : \A j \in at : i <= j

\* the Go slice expressions s[i:] and s[:j]
SliceFrom(s, i) == SubSeq(s, i + 1, Len(s))
SliceTo(s, j) == SubSeq(s, 1, j)

\* strings.Split(s, "/")
RECURSIVE SplitSlash(_)
SplitSlash(s) ==
    LET i == Index(s, <<"/">>)
    IN IF i = -1 THEN <<s>> ELSE <<SliceTo(s, i)>> \o SplitSlash(SliceFrom(s, i + 1))

\* strings.Split(s, sep) for a non-empty separator
RECURSIVE Split(_, _)
Split(s, sep) ==
    LET i == Index(s, sep)
    IN IF i = -1 THEN <<s>> ELSE <<SliceTo(s, i)>> \o Split(SliceFrom(s, i + Len(sep)), sep)

\* strings.Join(elems, sep)
RECURSIVE Join(_, _)
Join(elems, sep) ==
    IF elems = <<>> THEN <<>>
    ELSE IF Len(elems) = 1 THEN elems[1]
    ELSE elems[1] \o sep \o Join(Tail(elems), sep)

\* strings.Join(elems, "/")
RECURSIVE JoinSlash(_)
JoinSlash(elems) ==
    IF elems = <<>> THEN <<>>
    ELSE IF Len(elems) = 1 THEN elems[1]
    ELSE elems[1] \o <<"/">> \o JoinSlash(Tail(elems))

\* filepath.Clean on Unix: drop empty and "." elements, resolve "..", keep the root
RECURSIVE CleanElems(_, _, _)
CleanElems(elems, out, rooted) ==
    IF elems = <<>> THEN out
    ELSE LET e == elems[1]
             rest == Tail(elems)
         IN IF e = <<>> \/ e = <<".">> THEN CleanElems(rest, out, rooted)
            ELSE IF e = <<".", ".">>
                 THEN IF out # <<>> /\ out[Len(out)] # <<".", ".">>
                      THEN CleanElems(rest, SubSeq(out, 1, Len(out) - 1), rooted)
                      ELSE IF rooted THEN CleanElems(rest, out, rooted)
                      ELSE CleanElems(rest, Append(out, e), rooted)
            ELSE CleanElems(rest, Append(out, e), rooted)

Clean(path) ==
    IF path = <<>> THEN <<".">>
    ELSE LET rooted == path[1] = "/"
             body == JoinSlash(CleanElems(SplitSlash(path), <<>>, rooted))
         IN IF rooted THEN <<"/">> \o body
            ELSE IF body = <<>> THEN <<".">> ELSE body

\* filepath.Join of two elements: empty elements are ignored, the result is cleaned
FilepathJoin(a, b) ==
    IF a = <<>> /\ b = <<>> THEN <<>>
    ELSE IF a = <<>> THEN Clean(b)
    ELSE IF b = <<>> THEN Clean(a)
    ELSE Clean(a \o <<"/">> \o b)

\* strings.TrimSpace, for the space character
RECURSIVE TrimSpace(_)
TrimSpace(s) ==
    IF s = <<>> THEN s
    ELSE IF s[1] = " " THEN TrimSpace(Tail(s))
    ELSE IF s[Len(s)] = " " THEN TrimSpace(SubSeq(s, 1, Len(s) - 1))
    ELSE s

\* fmt.Sprintf("%d", n) for n >= 0
RECURSIVE Itoa(_)
Itoa(n) ==
    LET digit == <<"0", "1", "2", "3", "4", "5", "6", "7", "8", "9">>[(n % 10) + 1]
    IN IF n < 10 THEN <<digit>> ELSE Itoa(n \div 10) \o <<digit>>

-----------------------------------------------------------------------------
(* Path rewrite engine (path_rewrite.go).  Patterns and templates are taken *)
(* from a fixed set of Go regexp / text/template sources, each with the     *)
(* meaning the library gives it.                                            *)

PatAll == "^(.*)$"
PatUnderA == "^a/"
PatBroken == "["

TplUnderX == "x/{{.Entry.Filename}}"
TplUnderY == "y/{{.Entry.Filename}}"
TplOriginal == "{{.OriginalKey}}"
TplNoField == "{{.Filename}}"
TplBroken == "{{"
TplTagsExplicit == "{{join (getTagsExplicit .Entry) \"/\"}}"
TplAllTags == "{{join (getAllTags .Entry) \"/\"}}"

\* StarfishEntry.GetTagsExplicit and GetTagsInherited
GetTagsExplicit(entry) ==
    IF entry.TagsExplicitStr = <<>> THEN <<>> ELSE Split(entry.TagsExplicitStr, <<",">>)

GetTagsInherited(entry) ==
    IF entry.TagsInheritedStr = <<>> THEN <<>> ELSE Split(entry.TagsInheritedStr, <<",">>)

\* the keys of tagMap in GetAllTags
TagMap(entry) ==
    LET explicit == GetTagsExplicit(entry)
        inherited == GetTagsInherited(entry)
    IN {explicit[i] : i \in 1..Len(explicit)} \cup {inherited[i] : i \in 1..Len(inherited)}

\* the orders in which a range statement can visit the keys of a map: Go
\* leaves the order unspecified and the runtime varies it from one range to
\* the next
RangeOrders(keys) ==
    { order \in [1..Cardinality(keys) -> keys] :
        \A i, j \in 1..Cardinality(keys) : order[i] = order[j] => i = j }

\* StarfishEntry.GetAllTags: the keys of tagMap in the order the range visits them
GetAllTags(entry, iteration) == SelectSeq(iteration, LAMBDA tag : tag \in TagMap(entry))

\* regexp.Compile succeeds
RegexCompiles(pattern) == pattern # PatBroken

\* re.MatchString(originalKey)
RegexMatch(pattern, originalKey) ==
    CASE pattern = PatAll -> TRUE
      [] pattern = PatUnderA -> HasPrefix(originalKey, <<"a", "/">>)
      [] OTHER -> FALSE

\* executeTemplate: [err, out]; the output is trimmed of space and of one leading "/"
ExecuteTemplate(entry, templateStr, originalKey, iteration) ==
    CASE templateStr = TplUnderX ->
            [err |-> FALSE,
             out |-> TrimPrefix(TrimSpace(<<"x", "/">> \o entry.Filename), <<"/">>)]
      [] templateStr = TplUnderY ->
            [err |-> FALSE,
             out |-> TrimPrefix(TrimSpace(<<"y", "/">> \o entry.Filename), <<"/">>)]
      [] templateStr = TplOriginal ->
            [err |-> FALSE, out |-> TrimPrefix(TrimSpace(originalKey), <<"/">>)]
      [] templateStr = TplTagsExplicit ->
            [err |-> FALSE,
             out |-> TrimPrefix(TrimSpace(Join(GetTagsExplicit(entry), <<"/">>)), <<"/">>)]
      [] templateStr = TplAllTags ->
            [err |-> FALSE,
             out |-> TrimPrefix(TrimSpace(Join(GetAllTags(entry, iteration), <<"/">>)), <<"/">>)]
      [] OTHER -> [err |-> TRUE, out |-> <<>>]

\* applyRule with a pattern that does not compile ending the evaluation
ApplyRuleCompileErrorEnds(entry, originalKey, rule, iteration) ==
    IF ~RegexCompiles(rule.Pattern) THEN [matched |-> TRUE, key |-> originalKey]
    ELSE IF ~RegexMatch(rule.Pattern, originalKey) THEN [matched |-> FALSE, key |-> originalKey]
    ELSE LET r == ExecuteTemplate(entry, rule.Template, originalKey, iteration)
         IN IF r.err THEN [matched |-> FALSE, key |-> originalKey]
            ELSE [matched |-> TRUE, key |-> r.out]

\* applyRule: [matched, key]
ApplyRule(entry, originalKey, rule, iteration) ==
    IF ~RegexCompiles(rule.Pattern) THEN [matched |-> FALSE, key |-> originalKey]
    ELSE IF ~RegexMatch(rule.Pattern, originalKey) THEN [matched |-> FALSE, key |-> originalKey]
    ELSE LET r == ExecuteTemplate(entry, rule.Template, originalKey, iteration)
         IN IF r.err THEN [matched |-> FALSE, key |-> originalKey]
            ELSE [matched |-> TRUE, key |-> r.out]

\* the less function of the sort, line 82: higher priority first
Less(x, y) == x.Priority > y.Priority

\* insertion sort, the sort of package sort for a range of at most MaxInsertion
\* elements: the new element moves left while it is less than its neighbour
RECURSIVE InsertByPriority(_, _)
InsertByPriority(sorted, rule) ==
    IF sorted = <<>> THEN <<rule>>
    ELSE IF Less(rule, sorted[Len(sorted)])
         THEN Append(InsertByPriority(SubSeq(sorted, 1, Len(sorted) - 1), rule),
                     sorted[Len(sorted)])
         ELSE Append(sorted, rule)

RECURSIVE InsertionSort(_)
InsertionSort(rules) ==
    IF rules = <<>> THEN <<>>
    ELSE InsertByPriority(InsertionSort(SubSeq(rules, 1, Len(rules) - 1)), rules[Len(rules)])

\* the longest range package sort sorts by insertion
MaxInsertion == 12

\* data.Swap(i, j), indexes from 1
Swap(d, i, j) == [d EXCEPT ![i] = d[j], ![j] = d[i]]

\* order2 of package sort: the two indexes in order, and the swap count
Order2(d, a, b, swaps) == IF Less(d[b], d[a]) THEN <<b, a, swaps + 1>> ELSE <<a, b, swaps>>

\* choosePivot for 8 <= length < 50: the median of the elements at the three
\* quarter points, with the number of swaps it took to order them
ChoosePivot(d) ==
    LET q == Len(d) \div 4
        o1 == Order2(d, q + 1, 2 * q + 1, 0)
        o2 == Order2(d, o1[2], 3 * q + 1, o1[3])
        o3 == Order2(d, o1[1], o2[1], o2[3])
    IN [pivot |-> o3[2], swaps |-> o3[3]]

\* partialInsertionSort on a range shorter than 50: true, with nothing moved,
\* exactly when the range is sorted already
IsSorted(d) == \A i \in 2..Len(d) : ~Less(d[i], d[i - 1])

\* partition: the scan from the left stops at the first element not less than
\* the pivot, which is at index 1
RECURSIVE ScanUp(_, _, _)
ScanUp(d, i, j) == IF i <= j /\ Less(d[i], d[1]) THEN ScanUp(d, i + 1, j) ELSE i

\* partition: the scan from the right stops at the first element less than the pivot
RECURSIVE ScanDown(_, _, _)
ScanDown(d, i, j) == IF i <= j /\ ~Less(d[j], d[1]) THEN ScanDown(d, i, j - 1) ELSE j

\* partition: the loop that swaps the out-of-place pairs and puts the pivot at mid
RECURSIVE PartitionLoop(_, _, _)
PartitionLoop(d, i, j) ==
    LET i2 == ScanUp(d, i, j)
        j2 == ScanDown(d, i2, j)
    IN IF i2 > j2 THEN [data |-> Swap(d, j2, 1), mid |-> j2]
       ELSE PartitionLoop(Swap(d, i2, j2), i2 + 1, j2 - 1)

\* partition of package sort around the element at index pivot
Partition(d, pivot) == PartitionLoop(Swap(d, 1, pivot), 2, Len(d))

\* pdqsort of package sort on a range of MaxInsertion + 1 elements: a sorted
\* range is left alone, any other is partitioned once and both sides, short
\* enough by then, are sorted by insertion
PdqSort(d) ==
    LET c == ChoosePivot(d)
        p == Partition(d, c.pivot)
    IN IF c.swaps = 0 /\ IsSorted(d) THEN d
       ELSE InsertionSort(SubSeq(p.data, 1, p.mid - 1)) \o <<p.data[p.mid]>>
            \o InsertionSort(SubSeq(p.data, p.mid + 1, Len(d)))

\* sort.Slice(sortedRules, less), lines 81-83
SortByPriority(rules) ==
    IF Len(rules) <= MaxInsertion THEN InsertionSort(rules) ELSE PdqSort(rules)

\* the loop of applyPathRewrite without the test of the rule's bucket
RECURSIVE FirstMatchAnyBucket(_, _, _, _, _)
FirstMatchAnyBucket(sortedRules, entry, originalKey, bucket, iteration) ==
    IF sortedRules = <<>> THEN originalKey
    ELSE LET r == ApplyRule(entry, originalKey, sortedRules[1], iteration)
         IN IF r.matched THEN r.key
            ELSE FirstMatchAnyBucket(Tail(sortedRules), entry, originalKey, bucket, iteration)

\* the loop of applyPathRewrite returning the empty key after the last rule
RECURSIVE FirstMatchNoFallback(_, _, _, _, _)
FirstMatchNoFallback(sortedRules, entry, originalKey, bucket, iteration) ==
    IF sortedRules = <<>> THEN <<>>
    ELSE LET rule == sortedRules[1]
             r == ApplyRule(entry, originalKey, rule, iteration)
         IN IF (rule.Bucket = "*" \/ rule.Bucket = bucket) /\ r.matched
            THEN r.key
            ELSE FirstMatchNoFallback(Tail(sortedRules), entry, originalKey, bucket, iteration)

\* the loop of applyPathRewrite, lines 85-91, and the return after it
RECURSIVE FirstMatch(_, _, _, _, _)
FirstMatch(sortedRules, entry, originalKey, bucket, iteration) ==
    IF sortedRules = <<>> THEN originalKey
    ELSE LET rule == sortedRules[1]
             r == ApplyRule(entry, originalKey, rule, iteration)
         IN IF (rule.Bucket = "*" \/ rule.Bucket = bucket) /\ r.matched
            THEN r.key
            ELSE FirstMatch(Tail(sortedRules), entry, originalKey, bucket, iteration)

\* applyPathRewrite; rules is the configured rule list, <<>> when none is
\* configured; iteration is the order in which a range over the entry's tag
\* map visits its keys during the call
ApplyPathRewrite(rules, entry, originalKey, bucket, iteration) ==
    IF rules = <<>> THEN originalKey
    ELSE FirstMatch(SortByPriority(rules), entry, originalKey, bucket, iteration)

-----------------------------------------------------------------------------
(* Listing converter (convertToListObjectsResult / convertToListObjectsV2Result) *)

\* buildObjectKeyFromEntryWithBucket
BuildObjectKeyFromEntryWithBucket(entry, bucket) ==
    IF entry.FullPath # <<>> THEN TrimPrefix(entry.FullPath, <<"/">>)
    ELSE IF entry.ParentPath # <<>> THEN FilepathJoin(entry.ParentPath, entry.Filename)
    ELSE entry.Filename

\* shouldBeCommonPrefix without the test that the key starts with prefix
ShouldBeCommonPrefixAnyKey(objectKey, prefix, delimiter) ==
    LET afterPrefix == TrimPrefix(objectKey, prefix)
        delimiterIndex == Index(afterPrefix, delimiter)
    IN IF delimiterIndex = -1 THEN FALSE
       ELSE delimiterIndex + Len(delimiter) < Len(afterPrefix)

\* shouldBeCommonPrefix
ShouldBeCommonPrefix(objectKey, prefix, delimiter) ==
    IF ~HasPrefix(objectKey, prefix) THEN FALSE
    ELSE LET afterPrefix == SliceFrom(objectKey, Len(prefix))
             delimiterIndex == Index(afterPrefix, delimiter)
         IN IF delimiterIndex = -1 THEN FALSE
            ELSE delimiterIndex + Len(delimiter) < Len(afterPrefix)

\* getCommonPrefix cut before the delimiter
GetCommonPrefixNoDelimiter(objectKey, prefix, delimiter) ==
    LET afterPrefix == SliceFrom(objectKey, Len(prefix))
        delimiterIndex == Index(afterPrefix, delimiter)
    IN IF delimiterIndex = -1 THEN prefix ELSE prefix \o SliceTo(afterPrefix, delimiterIndex)

\* getCommonPrefix
GetCommonPrefix(objectKey, prefix, delimiter) ==
    LET afterPrefix == SliceFrom(objectKey, Len(prefix))
        delimiterIndex == Index(afterPrefix, delimiter)
    IN IF delimiterIndex = -1 THEN prefix
       ELSE prefix \o SliceTo(afterPrefix, delimiterIndex + Len(delimiter))

\* containsCommonPrefix that never finds the prefix
ContainsCommonPrefixNever(commonPrefixes, newPrefix) == FALSE

\* containsCommonPrefix
ContainsCommonPrefix(commonPrefixes, newPrefix) ==
    \E i \in 1..Len(commonPrefixes) : commonPrefixes[i] = newPrefix

\* generateETag
GenerateETag(entry) ==
    <<"\"">> \o Itoa(entry.Size) \o <<"-">> \o Itoa(entry.ModifyTimeUnix) \o <<"\"">>

\* StarfishEntry.GetModifyTime
ZeroTime == [zero |-> TRUE]
GetModifyTime(entry) ==
    IF entry.ModifyTimeUnix > 0 THEN [zero |-> FALSE, unix |-> entry.ModifyTimeUnix]
    ELSE ZeroTime

\* the start-after test of the loop, made inclusive
SkippedByStartAfterInclusive(objectKey, startAfter) ==
    startAfter # <<>> /\ StrLE(objectKey, startAfter) /\ objectKey # startAfter

\* the start-after test of the loop: skip if before startAfter
SkippedByStartAfter(objectKey, startAfter) ==
    startAfter # <<>> /\ StrLE(objectKey, startAfter)

\* lines 330-333 without the flag
TruncatedNoFlag(acc) == acc

\* lines 330-333: isTruncated = true; break
Truncated(acc) == [acc EXCEPT !.isTruncated = TRUE]

\* the loop's limit test without the test for a zero limit
LimitReachedAlsoZero(maxKeys, count) == count >= maxKeys

\* the loop's limit test, one object late
LimitReachedLate(maxKeys, count) == maxKeys > 0 /\ count > maxKeys

\* the loop's limit test
LimitReached(maxKeys, count) == maxKeys > 0 /\ count >= maxKeys

\* the loop over starfishResult.Entries from entry i on; acc holds contents,
\* commonPrefixes, isTruncated and count
RECURSIVE ConvertLoop(_, _, _, _, _, _, _, _)
ConvertLoop(entries, i, bucket, prefix, delimiter, startAfter, maxKeys, acc) ==
    IF i > Len(entries) THEN acc
    ELSE IF LimitReached(maxKeys, acc.count) THEN Truncated(acc)
    ELSE LET entry == entries[i]
             objectKey == BuildObjectKeyFromEntryWithBucket(entry, bucket)
         IN IF SkippedByStartAfter(objectKey, startAfter)
            THEN ConvertLoop(entries, i + 1, bucket, prefix, delimiter, startAfter, maxKeys, acc)
            ELSE IF delimiter # <<>> /\ ShouldBeCommonPrefix(objectKey, prefix, delimiter)
            THEN LET commonPrefix == GetCommonPrefix(objectKey, prefix, delimiter)
                     next == IF ContainsCommonPrefix(acc.commonPrefixes, commonPrefix)
                             THEN acc
                             ELSE [acc EXCEPT !.commonPrefixes = Append(@, commonPrefix)]
                 IN ConvertLoop(entries, i + 1, bucket, prefix, delimiter, startAfter,
                                maxKeys, next)
            ELSE LET object == [Key |-> objectKey, Size |-> entry.Size,
                                LastModified |-> GetModifyTime(entry),
                                ETag |-> GenerateETag(entry)]
                     next == [acc EXCEPT !.contents = Append(@, object), !.count = @ + 1]
                 IN ConvertLoop(entries, i + 1, bucket, prefix, delimiter, startAfter,
                                maxKeys, next)

ConvertStart == [contents |-> <<>>, commonPrefixes |-> <<>>, isTruncated |-> FALSE, count |-> 0]

\* convertToListObjectsResult
ConvertToListObjectsResult(entries, bucket, prefix, delimiter, startAfter, maxKeys) ==
    LET acc == ConvertLoop(entries, 1, bucket, prefix, delimiter, startAfter, maxKeys,
                           ConvertStart)
    IN [Contents |-> acc.contents, CommonPrefixes |-> acc.commonPrefixes,
        IsTruncated |-> acc.isTruncated, MaxKeys |-> maxKeys, Name |-> bucket,
        Prefix |-> prefix, Delimiter |-> delimiter]

\* convertToListObjectsV2Result
ConvertToListObjectsV2Result(entries, bucket, prefix, delimiter, startAfter, maxKeys) ==
    LET acc == ConvertLoop(entries, 1, bucket, prefix, delimiter, startAfter, maxKeys,
                           ConvertStart)
    IN [Contents |-> acc.contents, CommonPrefixes |-> acc.commonPrefixes,
        IsTruncated |-> acc.isTruncated, MaxKeys |-> maxKeys, Name |-> bucket,
        Prefix |-> prefix, Delimiter |-> delimiter,
        KeyCount |-> Len(acc.contents), StartAfter |-> startAfter]

-----------------------------------------------------------------------------
(* SpecConv: the converters applied to bounded inputs *)

Entry(fullPath, parentPath, filename, size, modifyTimeUnix) ==
    [FullPath |-> fullPath, ParentPath |-> parentPath, Filename |-> filename,
     Size |-> size, ModifyTimeUnix |-> modifyTimeUnix,
     TagsExplicitStr |-> <<>>, TagsInheritedStr |-> <<>>]

\* upstream entries: keys "a/b/c", "a/d", "/b" and "a/"
EntryPool ==
    { Entry(<<"/", "a", "/", "b", "/", "c">>, <<>>, <<"c">>, 1, 5),
      Entry(<<>>, <<"a">>, <<"d">>, 2, 0),
      Entry(<<>>, <<"/">>, <<"b">>, 3, 7),
      Entry(<<"a", "/">>, <<>>, <<>>, 0, 7) }

ConvPrefixes == { <<>>, <<"a", "/">> }
ConvDelimiters == { <<>>, <<"/">>, <<"/", "b">> }
ConvStartAfters == { <<>>, <<"a", "/">> }

WildcardRule == [Bucket |-> "*", Pattern |-> PatAll, Template |-> TplUnderX, Priority |-> 100]
ConvRuleSets == { <<>>, <<WildcardRule>> }

SeqsUpTo(S, n) == UNION { [1..k -> S] : k \in 0..n }

CacheIdle ==
    /\ data = EmptyMap
    /\ defaultTTL = Hour
    /\ now = 0
    /\ readers = {}
    /\ writer = NoThread
    /\ pc = [t \in Threads |-> "idle"]
    /\ tl = [t \in Threads |-> Idle]
    /\ ret = [t \in Threads |-> Idle]
    /\ crashed = FALSE
    /\ lastSet = [k \in CacheKeys |-> Idle]

InitConv ==
    /\ cin \in [op : {"convert"},
                entries : SeqsUpTo(EntryPool, MaxEntries),
                bucket : {"Archive"},
                prefix : ConvPrefixes,
                delimiter : ConvDelimiters,
                startAfter : ConvStartAfters,
                maxKeys : 0..MaxKeysBound,
                rules : ConvRuleSets]
    /\ cout = Idle
    /\ CacheIdle /\ BackendIdle

ConvertV1 ==
    /\ cin.op = "convert" /\ cout = Idle
    /\ cout' = [op |-> "v1",
                result |-> ConvertToListObjectsResult(cin.entries, cin.bucket, cin.prefix,
                               cin.delimiter, cin.startAfter, cin.maxKeys)]
    /\ UNCHANGED <<cin, cacheVars, backendVars>>

ConvertV2 ==
    /\ cin.op = "convert" /\ cout = Idle
    /\ cout' = [op |-> "v2",
                result |-> ConvertToListObjectsV2Result(cin.entries, cin.bucket, cin.prefix,
                               cin.delimiter, cin.startAfter, cin.maxKeys)]
    /\ UNCHANGED <<cin, cacheVars, backendVars>>

NextConv == ConvertV1 \/ ConvertV2

SpecConv == InitConv /\ [][NextConv]_vars

-----------------------------------------------------------------------------
(* SpecRewrite: applyPathRewrite applied to bounded inputs *)

Rule(bucket, pattern, template, priority) ==
    [Bucket |-> bucket, Pattern |-> pattern, Template |-> template, Priority |-> priority]

\* the rules of the configurations: the three of the priority example
\* (wildcard 100, "Archive" 200, "Tagged-Data" 300), a second wildcard rule of
\* priority 100, a rule for keys under "a/", and rules whose pattern does not
\* compile, whose template does not execute or whose template does not parse
RulePool ==
    { Rule("*", PatAll, TplUnderX, 100),
      Rule("Archive", PatAll, TplUnderY, 200),
      Rule("Tagged-Data", PatAll, TplOriginal, 300),
      Rule("*", PatAll, TplOriginal, 100),
      Rule("*", PatUnderA, TplOriginal, 200),
      Rule("*", PatBroken, TplUnderX, 300),
      Rule("*", PatAll, TplNoField, 300),
      Rule("*", PatAll, TplBroken, 300) }

\* a rule of a bucket no request of the model names
FillerRule == Rule("Elsewhere", PatAll, TplOriginal, 100)

\* rule lists of MaxInsertion + 1 rules: pool rules at the first and third
\* place and at the two places the sort samples, filler rules elsewhere
LongRuleLists ==
    { [i \in 1..(MaxInsertion + 1) |->
          CASE i = 1 -> r1 [] i = 3 -> r3 [] i = 7 -> r7 [] i = 10 -> r10 [] OTHER -> FillerRule]
      : r1 \in RulePool, r3 \in RulePool, r7 \in RulePool, r10 \in RulePool }

RuleLists == SeqsUpTo(RulePool, MaxRules) \cup LongRuleLists

\* the entries with their original keys: "a/d" and "b"
RewriteSubjects ==
    { [entry |-> Entry(<<>>, <<"a">>, <<"d">>, 2, 0), originalKey |-> <<"a", "/", "d">>],
      [entry |-> Entry(<<>>, <<>>, <<"b">>, 3, 7), originalKey |-> <<"b">>] }

RewriteBuckets == {"Archive", "Other"}

InitRewrite ==
    /\ cin \in [op : {"rewrite"}, rules : RuleLists, subject : RewriteSubjects,
                bucket : RewriteBuckets]
    /\ cout = Idle
    /\ CacheIdle /\ BackendIdle

\* a call of applyPathRewrite
Rewrite ==
    /\ cin.op = "rewrite" /\ cout = Idle
    /\ \E iteration \in RangeOrders(TagMap(cin.subject.entry)) :
          cout' = [op |-> "rewrite",
                   key |-> ApplyPathRewrite(cin.rules, cin.subject.entry,
                                            cin.subject.originalKey, cin.bucket, iteration)]
    /\ UNCHANGED <<cin, cacheVars, backendVars>>

NextRewrite == Rewrite

SpecRewrite == InitRewrite /\ [][NextRewrite]_vars

-----------------------------------------------------------------------------
(* SpecRepeat: applyPathRewrite called twice with the same arguments *)

MaxCalls == 2

\* an entry with explicit and inherited tags
TaggedEntry(filename, tagsExplicitStr, tagsInheritedStr) ==
    [Entry(<<>>, <<>>, filename, 1, 0) EXCEPT !.TagsExplicitStr = tagsExplicitStr,
                                              !.TagsInheritedStr = tagsInheritedStr]

\* rules whose templates use the explicit tags, the union of the tags, the
\* file name and the original key
RepeatRulePool ==
    { Rule("*", PatAll, TplAllTags, 100),
      Rule("*", PatAll, TplTagsExplicit, 100),
      Rule("Archive", PatUnderA, TplUnderX, 200),
      Rule("*", PatAll, TplOriginal, 300) }

\* entries tagged explicit "a" / inherited "b", explicit "a,b" / inherited
\* "b", explicit "a" only, and an entry without tags
RepeatSubjects ==
    { [entry |-> TaggedEntry(<<"d">>, <<"a">>, <<"b">>), originalKey |-> <<"d">>],
      [entry |-> TaggedEntry(<<"d">>, <<"a", ",", "b">>, <<"b">>), originalKey |-> <<"d">>],
      [entry |-> TaggedEntry(<<"d">>, <<"a">>, <<>>), originalKey |-> <<"a", "/", "d">>],
      [entry |-> TaggedEntry(<<"d">>, <<>>, <<>>), originalKey |-> <<"a", "/", "d">>] }

InitRepeat ==
    /\ cin \in [op : {"repeat"}, rules : SeqsUpTo(RepeatRulePool, MaxRules),
                subject : RepeatSubjects, bucket : RewriteBuckets]
    /\ cout = [op |-> "repeat", keys |-> <<>>]
    /\ CacheIdle /\ BackendIdle

\* one more call of applyPathRewrite with the same arguments; the rules are
\* sorted in a copy (lines 79-83), the configured list stays as it is
RewriteAgain ==
    /\ cin.op = "repeat" /\ Len(cout.keys) < MaxCalls
    /\ \E iteration \in RangeOrders(TagMap(cin.subject.entry)) :
          cout' = [cout EXCEPT !.keys = Append(@,
                      ApplyPathRewrite(cin.rules, cin.subject.entry,
                                       cin.subject.originalKey, cin.bucket, iteration))]
    /\ UNCHANGED <<cin, cacheVars, backendVars>>

NextRepeat == RewriteAgain

SpecRepeat == InitRepeat /\ [][NextRepeat]_vars

-----------------------------------------------------------------------------
(* SpecBackend: the listing operations over collections, cache and upstream *)

Buckets == { <<"a">> }

\* InitializeCollections, line 796: fmt.Sprintf("Collections:%s", tagName)
CollectionTag(tagName) == <<"Collections:">> \o tagName

\* the tag lists the upstream answers a collections discovery with
UpstreamTagLists == SUBSET Buckets

\* the HTTP outcomes of a query: a transport failure (status 0), or a status
\* with the decoded entries
UpstreamOutcomes ==
    { [status |-> 0, entries |-> <<>>],
      [status |-> 404, entries |-> <<>>],
      [status |-> 200, entries |-> <<Entry(<<>>, <<"a">>, <<"d">>, 2, 0),
                                     Entry(<<"/", "a", "/", "b", "/", "c">>, <<>>, <<"c">>, 1, 5)>>] }

\* the MaxKeys of a request: given, or the default
ListMaxKeys == {1, 1000}

\* the Marker / StartAfter of a request: none, or the key "a/b/c"
ListStartAfters == { <<>>, <<"a", "/", "b", "/", "c">> }

\* the nil pointer and the nil error
Nil == [kind |-> "nil"]

\* an error made by fmt.Errorf
PlainError(text) == [kind |-> "errorString", text |-> text]

\* &StarfishError{Code, Message}
StarfishError(code, message) == [kind |-> "StarfishError", Code |-> code, Message |-> message]

\* s3err.GetAPIError
APIError(code) == [kind |-> "APIError", Code |-> code]

\* err.Error(), as a sequence of text pieces
ErrorText(err) ==
    IF err.kind = "StarfishError"
    THEN <<"Starfish error [", err.Code, "]: ", err.Message>>
    ELSE IF err.kind = "APIError" THEN <<err.Code>>
    ELSE err.text

\* fmt.Errorf("", err).Error(): the operand has no verb in the format and is
\* reported as an extra argument
ErrorfEmptyFormat(err) == <<"%!(EXTRA ", err.kind, "=">> \o ErrorText(err) \o <<")">>

\* strings.Contains on a text made of pieces
Contains(text, piece) == \E i \in 1..Len(text) : text[i] = piece

\* starfishErrToS3Err, lines 60-103
StarfishErrToS3Err(err) ==
    LET errStr == ErrorText(err)
        isStarfish == ErrorfEmptyFormat(err) = errStr /\ Contains(errStr, "Starfish error [")
    IN IF err.kind = "APIError" THEN err
       ELSE IF isStarfish /\ Contains(errStr, "API_UNAVAILABLE")
       THEN APIError("InternalError")
       ELSE IF isStarfish /\ Contains(errStr, "COLLECTION_NOT_FOUND")
       THEN APIError("NoSuchBucket")
       ELSE IF isStarfish /\ Contains(errStr, "OBJECT_NOT_FOUND")
       THEN APIError("NoSuchKey")
       ELSE IF isStarfish /\ Contains(errStr, "AUTHENTICATION_FAILED")
       THEN APIError("AccessDenied")
       ELSE APIError("InternalError")

\* QueryStarfish, query.go lines 31-119, for one outcome of the HTTP exchange
QueryStarfish(colls, bucket, upstream) ==
    IF bucket \notin DOMAIN colls
    THEN [ok |-> FALSE,
          err |-> PlainError(<<"no Collections: tag found for bucket: ">> \o bucket)]
    ELSE IF upstream.status = 0
    THEN [ok |-> FALSE, err |-> StarfishError("API_UNAVAILABLE", "Starfish API is unavailable")]
    ELSE IF upstream.status # 200
    THEN [ok |-> FALSE,
          err |-> StarfishError(
                      CASE upstream.status = 401 -> "AUTHENTICATION_FAILED"
                        [] upstream.status = 404 -> "COLLECTION_NOT_FOUND"
                        [] upstream.status = 429 -> "RATE_LIMITED"
                        [] OTHER -> "API_ERROR",
                      "API request failed")]
    ELSE [ok |-> TRUE, entries |-> upstream.entries]

\* fmt.Sprintf("v1:%s:%s:%s", bucket, prefix, delimiter), "v2" for ListObjectsV2
ListCacheKey(version, bucket, prefix, delimiter) ==
    version \o <<":">> \o bucket \o <<":">> \o prefix \o <<":">> \o delimiter

\* the converter of the API version
ConvertFor(version, entries, bucket, prefix, delimiter, startAfter, maxKeys) ==
    IF version = <<"v", "1">>
    THEN ConvertToListObjectsResult(entries, bucket, prefix, delimiter, startAfter, maxKeys)
    ELSE ConvertToListObjectsV2Result(entries, bucket, prefix, delimiter, startAfter, maxKeys)

\* the cache after QueryStarfish has answered, with the result stored also
\* when the query failed
CacheAfterQueryAlways(d, cacheKey, query, bucket, t, ttl) ==
    SetEntry(d, cacheKey, IF query.ok THEN query.entries ELSE <<>>, bucket, t, ttl)

\* the cache after QueryStarfish has answered: lines 229-234 (311-316 in
\* ListObjectsV2) return on an error and store the result otherwise
CacheAfterQuery(d, cacheKey, query, bucket, t, ttl) ==
    IF query.ok THEN SetEntry(d, cacheKey, query.entries, bucket, t, ttl) ELSE d

\* the body shared by ListObjects (lines 159-238) and ListObjectsV2 (lines
\* 241-320): cache.Get, QueryStarfish, cache.Set and the conversion.  resp
\* records the call; mapped tells whether the bucket had a collection mapping
\* when the call was made.
List(version, bucket, prefix, delimiter, startAfter, maxKeys, upstream) ==
    LET cacheKey == ListCacheKey(version, bucket, prefix, delimiter)
        outcome == GetOutcome(data, cacheKey, now)
        afterGet == IF outcome = "expired" THEN MapDelete(data, cacheKey) ELSE data
        query == QueryStarfish(collections, bucket, upstream)
        call == [op |-> IF version = <<"v", "1">> THEN "ListObjects" ELSE "ListObjectsV2",
                 bucket |-> bucket, startAfter |-> startAfter, maxKeys |-> maxKeys,
                 mapped |-> bucket \in DOMAIN collections]
    IN /\ outcome = "hit" => data[cacheKey].HitCount < MaxHits
       /\ IF outcome = "hit"
          THEN /\ data' = [data EXCEPT ![cacheKey].HitCount = @ + 1]
               /\ resp' = call @@
                          [fromCache |-> TRUE, status |-> "OK",
                           result |-> ConvertFor(version, data[cacheKey].Data, bucket, prefix,
                                                 delimiter, startAfter, maxKeys)]
          ELSE IF ~query.ok
          THEN /\ data' = CacheAfterQuery(afterGet, cacheKey, query, bucket, now, defaultTTL)
               /\ resp' = call @@
                          [fromCache |-> FALSE, status |-> StarfishErrToS3Err(query.err).Code,
                           result |-> Idle]
          ELSE /\ data' = CacheAfterQuery(afterGet, cacheKey, query, bucket, now, defaultTTL)
               /\ resp' = call @@
                          [fromCache |-> FALSE, status |-> "OK",
                           result |-> ConvertFor(version, query.entries, bucket, prefix,
                                                 delimiter, startAfter, maxKeys)]
       /\ UNCHANGED <<defaultTTL, now, readers, writer, pc, tl, ret, crashed, lastSet,
                      collections, convVars>>

\* ListObjects, lines 159-238
ListObjects(bucket, startAfter, maxKeys, upstream) ==
    /\ ~crashed
    /\ List(<<"v", "1">>, bucket, <<>>, <<>>, startAfter, maxKeys, upstream)

\* ListObjectsV2, lines 241-320
ListObjectsV2(bucket, startAfter, maxKeys, upstream) ==
    /\ ~crashed
    /\ List(<<"v", "2">>, bucket, <<>>, <<>>, startAfter, maxKeys, upstream)

\* what a later call keeps of the call before it
Before(r) ==
    [op |-> r.op, clearedCount |-> IF r.op = "Shutdown" THEN r.clearedCount ELSE 0]

\* Shutdown, lines 106-110: the cache is cleared; Clear returns nothing, the
\* number of entries it dropped is kept here for the record only
Shutdown ==
    /\ ~crashed
    /\ data' = Cleared(data)
    /\ resp' = [op |-> "Shutdown", after |-> Before(resp),
                clearedCount |-> Cardinality(DOMAIN data)]
    /\ UNCHANGED <<defaultTTL, now, readers, writer, pc, tl, ret, crashed, lastSet,
                   collections, convVars>>

\* QueryCache.Stats called on the backend's cache
CacheStats ==
    /\ ~crashed
    /\ resp' = [op |-> "Stats", after |-> Before(resp), result |-> StatsOf(data, now)]
    /\ UNCHANGED <<cacheVars, collections, convVars>>

\* InitializeCollections, lines 759-801, when the upstream answers with tagNames
\* (startup and the periodic refresh)
InitializeCollections(tagNames) ==
    /\ ~crashed
    /\ collections' = [t \in tagNames |-> CollectionTag(t)]
    /\ UNCHANGED <<cacheVars, resp, convVars>>

\* AddCollection, lines 937-942
AddCollection(bucketName, collectionTag) ==
    /\ ~crashed
    /\ collections' = MapStore(collections, bucketName, collectionTag)
    /\ UNCHANGED <<cacheVars, resp, convVars>>

\* NewStarfishBackend, lines 852-923
InitBackend ==
    /\ data = EmptyMap
    /\ defaultTTL \in {ConfiguredTTL(c) : c \in ConfigTTLs}
    /\ now = 0
    /\ readers = {}
    /\ writer = NoThread
    /\ pc = [t \in Threads |-> "idle"]
    /\ tl = [t \in Threads |-> Idle]
    /\ ret = [t \in Threads |-> Idle]
    /\ crashed = FALSE
    /\ lastSet = [k \in CacheKeys |-> Idle]
    /\ collections = EmptyMap
    /\ resp = Idle
    /\ ConvIdle

NextBackend ==
    \/ \E b \in Buckets, a \in ListStartAfters, m \in ListMaxKeys, u \in UpstreamOutcomes :
          ListObjects(b, a, m, u)
    \/ \E b \in Buckets, a \in ListStartAfters, m \in ListMaxKeys, u \in UpstreamOutcomes :
          ListObjectsV2(b, a, m, u)
    \/ \E tags \in UpstreamTagLists : InitializeCollections(tags)
    \/ \E b \in Buckets : AddCollection(b, CollectionTag(b))
    \/ Shutdown
    \/ CacheStats
    \/ Tick /\ UNCHANGED <<backendVars, convVars>>

SpecBackend == InitBackend /\ [][NextBackend]_vars

-----------------------------------------------------------------------------
(* SpecPages: a client paging through a listing with the start-after cursor *)

MaxPageEntries == 4

\* files under "a", "a/b" and "b" and a file without parent path
PageEntryPool ==
    { Entry(<<>>, <<>>, <<"c">>, 1, 1),
      Entry(<<>>, <<"a">>, <<"c">>, 1, 1),
      Entry(<<>>, <<"a">>, <<"d">>, 1, 1),
      Entry(<<>>, <<"a", "/", "b">>, <<"c">>, 1, 1),
      Entry(<<>>, <<"b">>, <<"a">>, 1, 1) }

\* the order of the upstream query, sort_by=parent_path,fn (query.go line 152)
UpstreamLE(e, f) ==
    IF e.ParentPath = f.ParentPath THEN StrLE(e.Filename, f.Filename)
    ELSE StrLE(e.ParentPath, f.ParentPath)

\* entry lists as the upstream delivers them: sorted, without repetition
UpstreamLists ==
    { es \in SeqsUpTo(PageEntryPool, MaxPageEntries) :
        \A i \in 1..(Len(es) - 1) : es[i] # es[i + 1] /\ UpstreamLE(es[i], es[i + 1]) }

PageSizes == 1..MaxKeysBound

InitPages ==
    /\ cin \in [op : {"pages"}, entries : UpstreamLists, bucket : {"Archive"},
                maxKeys : PageSizes]
    /\ cout = [op |-> "pages", pages |-> <<>>, startAfter |-> <<>>, done |-> FALSE]
    /\ CacheIdle /\ BackendIdle

\* the client asks for the next page: convertToListObjectsV2Result with the
\* cursor at the last key of the page before, until a page is not truncated
NextPage ==
    /\ cin.op = "pages" /\ ~cout.done
    /\ LET result == ConvertToListObjectsV2Result(cin.entries, cin.bucket, <<>>, <<>>,
                                                  cout.startAfter, cin.maxKeys)
           keys == [n \in 1..Len(result.Contents) |-> result.Contents[n].Key]
       IN cout' = [op |-> "pages",
                   pages |-> Append(cout.pages, keys),
                   startAfter |-> IF keys = <<>> THEN cout.startAfter ELSE keys[Len(keys)],
                   done |-> ~result.IsTruncated]
    /\ UNCHANGED <<cin, cacheVars, backendVars>>

SpecPages == InitPages /\ [][NextPage]_vars

-----------------------------------------------------------------------------
(* SpecHead: HeadObject and the listings over the same upstream entries *)

MaxHeadEntries == 2

\* the keys of the requests: "b", "/b", "a/d" and "a/b/c"
HeadKeys == { <<"b">>, <<"/", "b">>, <<"a", "/", "d">>, <<"a", "/", "b", "/", "c">> }

\* the loop of HeadObject, lines 454-461: the place of the first entry whose
\* key is the requested one, 0 when there is none
FoundEntry(entries, bucket, object) ==
    LET at == { i \in 1..Len(entries) :
                  BuildObjectKeyFromEntryWithBucket(entries[i], bucket) = object }
    IN IF at = {} THEN 0 ELSE CHOOSE i \in at : \A j \in at : i <= j

\* HeadObject, lines 442-480, when QueryStarfish answers with the entries
HeadObjectOutput(entries, bucket, object) ==
    LET i == FoundEntry(entries, bucket, object)
    IN IF i = 0 THEN [err |-> APIError("NoSuchKey")]
       ELSE [err |-> Nil, ETag |-> GenerateETag(entries[i]),
             LastModified |-> GetModifyTime(entries[i]),
             ContentLength |-> entries[i].Size]

InitHead ==
    /\ cin \in [op : {"convert"}, entries : SeqsUpTo(EntryPool, MaxHeadEntries),
                bucket : {"Archive"}, prefix : {<<>>}, delimiter : {<<>>},
                startAfter : {<<>>}, maxKeys : {0}, rules : {<<>>}, key : HeadKeys]
    /\ cout = Idle
    /\ CacheIdle /\ BackendIdle

\* a HeadObject request for cin.key
HeadObject ==
    /\ cin.op = "convert" /\ cout = Idle
    /\ cout' = [op |-> "head", result |-> HeadObjectOutput(cin.entries, cin.bucket, cin.key)]
    /\ UNCHANGED <<cin, cacheVars, backendVars>>

NextHead == HeadObject \/ ConvertV1 \/ ConvertV2

SpecHead == InitHead /\ [][NextHead]_vars

-----------------------------------------------------------------------------
(* SpecFormat: formatSizeWithUnit.  An int64 size of 0 or more is held as its *)
(* digits in base 1024, lowest first and without leading zero digits, so    *)
(* that sizes of a terabyte and more stay within the integers of TLC.       *)

MaxLimbs == 5

\* size / 1024^k
DivPow1024(size, k) == SubSeq(size, k + 1, Len(size))

\* size < 1024^k
LessPow1024(size, k) == Len(size) <= k

\* division of a size by 10, from the highest digit down: [quot, rem], quot
\* with the leading zero digits it gets
RECURSIVE DivTen(_, _, _)
DivTen(size, i, rem) ==
    IF i = 0 THEN [quot |-> <<>>, rem |-> rem]
    ELSE LET cur == rem * 1024 + size[i]
             rest == DivTen(size, i - 1, cur % 10)
         IN [quot |-> Append(rest.quot, cur \div 10), rem |-> rest.rem]

\* a size without its leading zero digits
RECURSIVE Canonical(_)
Canonical(size) ==
    IF size # <<>> /\ size[Len(size)] = 0 THEN Canonical(SubSeq(size, 1, Len(size) - 1))
    ELSE size

\* fmt.Sprintf("%d", size)
RECURSIVE Decimal(_)
Decimal(size) ==
    LET d == DivTen(size, Len(size), 0)
        digit == <<"0", "1", "2", "3", "4", "5", "6", "7", "8", "9">>[d.rem + 1]
    IN IF Canonical(d.quot) = <<>> THEN <<digit>> ELSE Decimal(Canonical(d.quot)) \o <<digit>>

\* formatSizeWithUnit with 1024 bytes still formatted in bytes
FormatSizeWithUnitLateKB(size, unit) ==
    CASE unit \in {"bytes", "b"} -> Decimal(size)
      [] unit \in {"kb", "KB"} -> Decimal(DivPow1024(size, 1))
      [] unit \in {"mb", "MB"} -> Decimal(DivPow1024(size, 2))
      [] unit \in {"gb", "GB"} -> Decimal(DivPow1024(size, 3))
      [] unit \in {"tb", "TB"} -> Decimal(DivPow1024(size, 4))
      [] unit = "auto" ->
            IF LessPow1024(size, 1) \/ size = <<0, 1>> THEN Decimal(size) \o <<"B">>
            ELSE IF LessPow1024(size, 2) THEN Decimal(DivPow1024(size, 1)) \o <<"K", "B">>
            ELSE IF LessPow1024(size, 3) THEN Decimal(DivPow1024(size, 2)) \o <<"M", "B">>
            ELSE IF LessPow1024(size, 4) THEN Decimal(DivPow1024(size, 3)) \o <<"G", "B">>
            ELSE Decimal(DivPow1024(size, 4)) \o <<"T", "B">>
      [] OTHER -> Decimal(size)

\* formatSizeWithUnit, lines 318-347
FormatSizeWithUnit(size, unit) ==
    CASE unit \in {"bytes", "b"} -> Decimal(size)
      [] unit \in {"kb", "KB"} -> Decimal(DivPow1024(size, 1))
      [] unit \in {"mb", "MB"} -> Decimal(DivPow1024(size, 2))
      [] unit \in {"gb", "GB"} -> Decimal(DivPow1024(size, 3))
      [] unit \in {"tb", "TB"} -> Decimal(DivPow1024(size, 4))
      [] unit = "auto" ->
            IF LessPow1024(size, 1) THEN Decimal(size) \o <<"B">>
            ELSE IF LessPow1024(size, 2) THEN Decimal(DivPow1024(size, 1)) \o <<"K", "B">>
            ELSE IF LessPow1024(size, 3) THEN Decimal(DivPow1024(size, 2)) \o <<"M", "B">>
            ELSE IF LessPow1024(size, 4) THEN Decimal(DivPow1024(size, 3)) \o <<"G", "B">>
            ELSE Decimal(DivPow1024(size, 4)) \o <<"T", "B">>
      [] OTHER -> Decimal(size)

\* the sizes of up to MaxLimbs digits, each digit 0, 1, 5 or 1023
FormatSizes ==
    { size \in SeqsUpTo({0, 1, 5, 1023}, MaxLimbs) : Canonical(size) = size }

FormatUnits == {"bytes", "b", "kb", "KB", "mb", "MB", "gb", "GB", "tb", "TB", "auto", "pb"}

InitFormat ==
    /\ cin \in [op : {"format"}, size : FormatSizes, unit : FormatUnits]
    /\ cout = Idle
    /\ CacheIdle /\ BackendIdle

\* a call of formatSizeWithUnit
FormatSize ==
    /\ cin.op = "format" /\ cout = Idle
    /\ cout' = [op |-> "format", text |-> FormatSizeWithUnit(cin.size, cin.unit)]
    /\ UNCHANGED <<cin, cacheVars, backendVars>>

SpecFormat == InitFormat /\ [][FormatSize]_vars

-----------------------------------------------------------------------------
(* SpecLoad: loading and validating a path rewrite configuration *)

MaxLoadRules == 2

\* &PathRewriteConfig{Rules: rules}
PathRewriteConfig(rules) == [kind |-> "PathRewriteConfig", Rules |-> rules]

\* fmt.Errorf(prefix + ": %w", err)
Wrap(prefix, err) == PlainError(<<prefix, ": ">> \o ErrorText(err))

\* the checks of one rule in validatePathRewriteConfig without the one of the priority
RuleErrorAnyPriority(i, rule) ==
    IF rule.Bucket = "" THEN PlainError(<<"rule ">> \o Itoa(i) \o <<": bucket name cannot be empty">>)
    ELSE IF rule.Pattern = "" THEN PlainError(<<"rule ">> \o Itoa(i) \o <<": pattern cannot be empty">>)
    ELSE IF rule.Template = "" THEN PlainError(<<"rule ">> \o Itoa(i) \o <<": template cannot be empty">>)
    ELSE Nil

\* the checks of rule i (counted from 0) in validatePathRewriteConfig, lines 64-84
RuleError(i, rule) ==
    IF rule.Bucket = "" THEN PlainError(<<"rule ">> \o Itoa(i) \o <<": bucket name cannot be empty">>)
    ELSE IF rule.Pattern = "" THEN PlainError(<<"rule ">> \o Itoa(i) \o <<": pattern cannot be empty">>)
    ELSE IF rule.Template = "" THEN PlainError(<<"rule ">> \o Itoa(i) \o <<": template cannot be empty">>)
    ELSE IF rule.Priority < 0 THEN PlainError(<<"rule ">> \o Itoa(i) \o <<": priority cannot be negative">>)
    ELSE Nil

\* the loop of validatePathRewriteConfig from rule i (counted from 1) on
RECURSIVE ValidateFrom(_, _)
ValidateFrom(rules, i) ==
    IF i > Len(rules) THEN Nil
    ELSE IF RuleError(i - 1, rules[i]) # Nil THEN RuleError(i - 1, rules[i])
    ELSE ValidateFrom(rules, i + 1)

\* validatePathRewriteConfig: the error, Nil when there is none
ValidatePathRewriteConfig(config) ==
    IF config = Nil THEN Nil ELSE ValidateFrom(config.Rules, 1)

\* the configuration file named by configPath: no path given, no such file,
\* a file that cannot be read, a file that is not the JSON of a
\* configuration, and a file holding the rules
FileKinds == {"nopath", "missing", "unreadable", "malformed", "rules"}

\* LoadPathRewriteConfig: [config, err]
LoadPathRewriteConfig(file) ==
    IF file.kind = "nopath" THEN [config |-> Nil, err |-> Nil]
    ELSE IF file.kind = "missing"
    THEN [config |-> Nil,
          err |-> PlainError(<<"path rewrite configuration file not found: ", "p">>)]
    ELSE IF file.kind = "unreadable"
    THEN [config |-> Nil,
          err |-> Wrap("failed to read path rewrite configuration file", PlainError(<<"read">>))]
    ELSE IF file.kind = "malformed"
    THEN [config |-> Nil,
          err |-> Wrap("failed to parse path rewrite configuration JSON", PlainError(<<"json">>))]
    ELSE LET config == PathRewriteConfig(file.rules)
             err == ValidatePathRewriteConfig(config)
         IN IF err # Nil
            THEN [config |-> Nil, err |-> Wrap("invalid path rewrite configuration", err)]
            ELSE [config |-> config, err |-> Nil]

\* rules with each field empty or not and each sign of the priority
LoadRulePool ==
    [Bucket : {"", "*"}, Pattern : {"", PatAll}, Template : {"", TplOriginal},
     Priority : {-1, 0, 100}]

InitLoad ==
    /\ \/ cin \in [op : {"load"}, kind : FileKinds \ {"rules"}, rules : {<<>>}]
       \/ cin \in [op : {"load"}, kind : {"rules"}, rules : SeqsUpTo(LoadRulePool, MaxLoadRules)]
       \/ cin \in [op : {"validate"}, config : {Nil}]
       \/ cin \in [op : {"validate"},
                    config : {PathRewriteConfig(r) : r \in SeqsUpTo(LoadRulePool, MaxLoadRules)}]
    /\ cout = Idle
    /\ CacheIdle /\ BackendIdle

\* a call of LoadPathRewriteConfig
Load ==
    /\ cin.op = "load" /\ cout = Idle
    /\ cout' = [op |-> "load", result |-> LoadPathRewriteConfig(cin)]
    /\ UNCHANGED <<cin, cacheVars, backendVars>>

\* a call of validatePathRewriteConfig
Validate ==
    /\ cin.op = "validate" /\ cout = Idle
    /\ cout' = [op |-> "validate", err |-> ValidatePathRewriteConfig(cin.config)]
    /\ UNCHANGED <<cin, cacheVars, backendVars>>

NextLoad == Load \/ Validate

SpecLoad == InitLoad /\ [][NextLoad]_vars

-----------------------------------------------------------------------------
(* Claims about the cache, checked under SpecCache *)

\* a Get of goroutine t has found an entry under its key and has its result
GetAnswered(t) ==
    /\ pc[t] = "r_unlock" /\ tl[t].op = "get"
    /\ tl[t].outcome \in {"hit", "expired"}

\* C1: a get made strictly before the entry's expiry time returns the entry's
\* data, and a get made at or after the expiry time returns absent.
C1_GetBeforeAndAtExpiry ==
    \A t \in Threads :
        GetAnswered(t) =>
            /\ (tl[t].at < tl[t].cached.ExpiresAt => ret[t] = Found(tl[t].cached.Data))
            /\ (tl[t].at >= tl[t].cached.ExpiresAt => ret[t] = Absent)

\* C2: while a goroutine is about to mutate the cache (set, invalidate, clear,
\* the removal of an expired entry or the hit-counter increment inside get), no
\* other goroutine is at an access to the cache's mapping.
C2_MutationsExclusive ==
    \A t \in Threads :
        pc[t] \in MutatingPcs => \A u \in Threads \ {t} : pc[u] \notin AccessPcs

\* C3: the entry a key holds is the complete result of the last Set on that key
\* (its data, its descriptor, its insertion time, expiry = insertion + TTL, and
\* hit counter 0 until a get hits it), and a get that finds the entry returns
\* that Set's data, never a mixture or an earlier Set's result.
C3_LastSetWins ==
    /\ \A k \in CacheKeys :
          lastSet[k] # Idle =>
              /\ k \in DOMAIN data
              /\ data[k].Data = lastSet[k].value
              /\ data[k].VolumeAndPath = lastSet[k].volumeAndPath
              /\ data[k].CachedAt = lastSet[k].at
              /\ data[k].ExpiresAt = lastSet[k].at + defaultTTL
              /\ (~lastSet[k].hit => data[k].HitCount = 0)
    /\ \A t \in Threads :
          (GetAnswered(t) /\ tl[t].outcome = "hit" /\ lastSet[tl[t].key] # Idle) =>
              ret[t] = Found(lastSet[tl[t].key].value)

\* C3 witness: a Set has replaced the entry of an earlier Set on the same key
\* and a get on the key has found the new entry.
C3_Witness ==
    \E k \in CacheKeys, t \in Threads :
        /\ lastSet[k] # Idle /\ lastSet[k].replaced /\ lastSet[k].value = "d2"
        /\ GetAnswered(t) /\ tl[t].key = k /\ tl[t].outcome = "hit"

\* a Get of goroutine t has looked its key up at or after the entry's expiry
\* time and is about to return
GetOfExpired(t) == GetAnswered(t) /\ tl[t].at >= tl[t].cached.ExpiresAt

\* a step takes the entry of key k out of the map
EntryRemoved(k) == k \in DOMAIN data /\ k \notin DOMAIN data'

\* entries leave the map only by the delete of a Get that found them expired,
\* which removes that entry alone, by Invalidate of the key or by Clear; an
\* entry that stays is changed only by a Set of its key or by the hit count of
\* a Get of its key
EvictionFrame ==
    /\ \A k \in DOMAIN data :
          EntryRemoved(k) =>
              \/ \E t \in Threads :
                    /\ pc[t] = "get_delete" /\ tl[t].key = k
                    /\ After(tl[t].at, tl[t].cached.ExpiresAt)
                    /\ data' = MapDelete(data, k)
              \/ \E t \in Threads : pc[t] = "inv_body" /\ tl[t].key = k
              \/ \E t \in Threads : pc[t] = "clear_body"
    /\ \A k \in DOMAIN data \cap DOMAIN data' :
          data'[k] # data[k] =>
              \E t \in Threads : pc[t] \in {"set_body", "get_hit_store"} /\ tl[t].key = k

\* C13: a get on a key whose entry has expired (the lookup is made at or after
\* the entry's expiry time) returns absent and the entry is gone from the
\* cache when it returns; that removal takes out this entry alone, and no
\* other step than invalidate, clear or a replacing set takes out or changes
\* an entry.
C13_LazyEviction ==
    /\ [](\A t \in Threads :
             GetOfExpired(t) => ret[t] = Absent /\ tl[t].key \notin DOMAIN data)
    /\ [][EvictionFrame]_vars

\* the part of C13 the cache keeps: a get made strictly after the expiry time
\* returns absent with the entry removed, and entries leave the map in no
\* other way than EvictionFrame allows
C13_EvictsAfterExpiry ==
    /\ [](\A t \in Threads :
             (GetAnswered(t) /\ After(tl[t].at, tl[t].cached.ExpiresAt)) =>
                 ret[t] = Absent /\ tl[t].key \notin DOMAIN data)
    /\ [][EvictionFrame]_vars

\* a Stats call of goroutine t has computed its result
StatsAnswered(t) == pc[t] = "r_unlock" /\ tl[t].op = "stats"

\* the entries of map d that are valid at time at: at is before their expiry
ValidAt(d, at) == {k \in DOMAIN d : at < d[k].ExpiresAt}

\* C14: every cached result has expiry time = insertion time + configured TTL,
\* the TTL being one hour when none is configured, and a result counts as
\* valid for get and for stats if and only if now < expiry.
C14_ExpiryAndValidity ==
    /\ \A c \in ConfigTTLs : c = 0 => ConfiguredTTL(c) = Hour
    /\ defaultTTL \in {ConfiguredTTL(c) : c \in ConfigTTLs}
    /\ \A k \in DOMAIN data : data[k].ExpiresAt = data[k].CachedAt + defaultTTL
    /\ \A t \in Threads :
          /\ GetAnswered(t) =>
                (tl[t].outcome = "hit" <=> tl[t].at < tl[t].cached.ExpiresAt)
          /\ StatsAnswered(t) =>
                ret[t].valid_entries = Cardinality(ValidAt(tl[t].seen, tl[t].at))

\* goroutine t executes the body of Invalidate in this step
InvalidateStep(t) == pc[t] = "inv_body" /\ pc'[t] = "w_unlock"

\* C17: invalidate(k) removes the entry of k when there is one and does
\* nothing, without failing, when there is none; in both cases the entries of
\* the other keys are the same before and after.
C17_InvalidateOnlyKey ==
    [][\A t \in Threads :
          InvalidateStep(t) =>
              /\ tl[t].key \notin DOMAIN data'
              /\ DOMAIN data' = DOMAIN data \ {tl[t].key}
              /\ \A j \in DOMAIN data' : data'[j] = data[j]
              /\ tl[t].key \notin DOMAIN data => data' = data
              /\ ~crashed']_vars

\* C17 witness: an invalidate has removed the entry of its key while the other
\* key keeps its entry.
C17_Witness ==
    \E t \in Threads :
        /\ pc[t] = "w_unlock" /\ tl[t].op = "invalidate" /\ tl[t].exists
        /\ tl[t].key \notin DOMAIN data /\ DOMAIN data # {}

\* the hit counters of all entries of map d, added up
RECURSIVE HitsOf(_, _)
HitsOf(d, keys) ==
    IF keys = {} THEN 0
    ELSE LET k == CHOOSE x \in keys : TRUE IN d[k].HitCount + HitsOf(d, keys \ {k})

\* the hit ratio of the result is the hits of every cached entry over the
\* number of entries
C18_RatioOverAllEntries ==
    \A t \in Threads :
        StatsAnswered(t) =>
            LET d == tl[t].seen
            IN ret[t].cache_hit_ratio =
                   IF DOMAIN d = {} THEN <<0, 1>>
                   ELSE <<HitsOf(d, DOMAIN d), Cardinality(DOMAIN d)>>

\* the counts of the result: all entries, those with now before expiry, the rest
C18_Counts ==
    \A t \in Threads :
        StatsAnswered(t) =>
            LET d == tl[t].seen
            IN /\ ret[t].total_entries = Cardinality(DOMAIN d)
               /\ ret[t].valid_entries = Cardinality(ValidAt(d, tl[t].at))
               /\ ret[t].expired_entries = Cardinality(DOMAIN d \ ValidAt(d, tl[t].at))
               /\ ret[t].total_entries = ret[t].valid_entries + ret[t].expired_entries

\* a get that returns the data of an entry still in the map adds one to the
\* entry's hit counter
C18_HitAddsOne ==
    \A t \in Threads :
        (pc[t] = "get_hit_store" /\ pc'[t] = "r_unlock" /\ tl[t].key \in DOMAIN data) =>
            data'[tl[t].key].HitCount = data[tl[t].key].HitCount + 1

\* C18: stats() reports total = the number of entries, valid = the entries
\* with now before their expiry, expired = the others, and the hit ratio = the
\* hits of the cached entries added up, divided by total (0 for an empty
\* cache); every successful get adds exactly one hit to its entry.
C18_StatsReport == [](C18_Counts /\ C18_RatioOverAllEntries) /\ [][C18_HitAddsOne]_vars

-----------------------------------------------------------------------------
(* Claims about the listing operations, checked under SpecBackend *)

\* C4: a listing request (ListObjects or ListObjectsV2) for a bucket that has
\* no collection mapping when it is made fails with the no-such-bucket error,
\* never with a successful listing or an internal error, also when a cached
\* result for the bucket is left from before a refresh removed the mapping.
C4_UnmappedBucketNotFound ==
    (resp # Idle /\ ~resp.mapped) => resp.status = "NoSuchBucket"

\* a listing of an unmapped bucket was answered from the cache
C4_StaleListing == resp # Idle /\ ~resp.mapped /\ resp.fromCache /\ resp.status = "OK"

\* a listing of an unmapped bucket was answered with an internal error
C4_InternalError == resp # Idle /\ ~resp.mapped /\ resp.status = "InternalError"

\* the statistics of an empty cache
ZeroStats ==
    [total_entries |-> 0, valid_entries |-> 0, expired_entries |-> 0, total_hits |-> 0,
     cache_hit_ratio |-> <<0, 1>>]

\* C15: stats() right after clear() reports zero total, valid and expired
\* entries and zero hits whatever the cache held before; a second clear()
\* drops nothing and leaves the cache empty; Shutdown of the backend is that
\* clear.
C15_ClearThenStatsZero ==
    /\ (resp.op = "Stats" /\ resp.after.op = "Shutdown") => resp.result = ZeroStats
    /\ resp.op = "Shutdown" => data = EmptyMap
    /\ (resp.op = "Shutdown" /\ resp.after.op = "Shutdown") => resp.clearedCount = 0

\* C15 witness: stats() follows a Shutdown that dropped two entries and
\* reports none.
C15_Witness ==
    /\ resp.op = "Stats" /\ resp.after.op = "Shutdown" /\ resp.after.clearedCount = 2
    /\ resp.result.total_entries = 0

\* the value a call hands back to its caller
Returned(v) == [returned |-> v]

\* C16: clear() removes all entries and returns to its caller the number of
\* entries it removed.
C16_ClearReturnsCount ==
    \A t \in Threads :
        (pc[t] = "w_unlock" /\ tl[t].op = "clear") =>
            data = EmptyMap /\ ret[t] = Returned(tl[t].clearedCount)

\* the step is a call of ListObjects or ListObjectsV2: the cache or the
\* response changes, and the response after it is a listing's
ListStep ==
    /\ resp' # Idle /\ resp'.op \in {"ListObjects", "ListObjectsV2"}
    /\ <<data, resp>>' # <<data, resp>>
    /\ now' = now /\ collections' = collections

\* the cache key of the request answered by r
RequestKey(r) ==
    ListCacheKey(IF r.op = "ListObjects" THEN <<"v", "1">> ELSE <<"v", "2">>,
                 r.bucket, <<>>, <<>>)

\* the listing the operation of r makes of the entries for r's request
ListingOf(r, entries) ==
    ConvertFor(IF r.op = "ListObjects" THEN <<"v", "1">> ELSE <<"v", "2">>,
               entries, r.bucket, <<>>, <<>>, r.startAfter, r.maxKeys)

\* the cache holds an entry for the key that has not reached its expiry time
CachedUnexpired(key) == key \in DOMAIN data /\ now < data[key].ExpiresAt

C30_FailureLeavesCacheAsItWas ==
    [][(ListStep /\ resp'.status # "OK") => (resp'.result = Idle /\ data' = data)]_vars

\* C30, amended: when the upstream query fails the call returns an error, and
\* no entry is inserted or replaced: every entry in the cache after the call
\* was there before it, unchanged, and the only entry that can be gone is the
\* request's own key's, removed by the lookup because it had expired.
C30_FailureStoresNothing ==
    [][(ListStep /\ resp'.status # "OK") =>
          /\ resp'.result = Idle /\ ~resp'.fromCache
          /\ \A key \in DOMAIN data' : key \in DOMAIN data /\ data'[key] = data[key]
          /\ \A key \in DOMAIN data \ DOMAIN data' :
                key = RequestKey(resp') /\ now > data[key].ExpiresAt]_vars

\* C30 witness: a call for a mapped bucket failed with the upstream
\* unavailable; after it the cache holds no entry for the request's key and
\* still holds the other operation's entry.
C30_Witness ==
    /\ resp # Idle /\ resp.op \in {"ListObjects", "ListObjectsV2"}
    /\ resp.mapped /\ resp.status = "InternalError"
    /\ RequestKey(resp) \notin DOMAIN data
    /\ data # EmptyMap /\ now > 0

-----------------------------------------------------------------------------
(* Claims about the listing converter, checked under SpecConv *)

Converted == cout # Idle

\* the key of the i-th input entry: the full path if present, otherwise the
\* parent path combined with the filename
KeyOf(i) == BuildObjectKeyFromEntryWithBucket(cin.entries[i], cin.bucket)

EntryIndexes == 1..Len(cin.entries)

\* the entry's key is strictly after the start-after cursor (or there is none)
PassesStartAfter(key) == cin.startAfter = <<>> \/ ~StrLE(key, cin.startAfter)

\* the delimiter occurs in rest at 1-based position j
DelimiterAt(rest, j) ==
    j + Len(cin.delimiter) - 1 <= Len(rest)
    /\ SubSeq(rest, j, j + Len(cin.delimiter) - 1) = cin.delimiter

\* the first 1-based position of the delimiter in rest, 0 if there is none
FirstDelimiter(rest) ==
    IF \E j \in 1..Len(rest) : DelimiterAt(rest, j)
    THEN CHOOSE j \in 1..Len(rest) : DelimiterAt(rest, j) /\ \A h \in 1..(j - 1) : ~DelimiterAt(rest, h)
    ELSE 0

\* rest contains the delimiter with at least one more character after its
\* first occurrence
DelimiterWithMore(rest) ==
    FirstDelimiter(rest) > 0 /\ FirstDelimiter(rest) + Len(cin.delimiter) - 1 < Len(rest)

\* prefix + rest up to and including the first occurrence of the delimiter
PrefixThroughDelimiter(rest) ==
    cin.prefix \o SubSeq(rest, 1, FirstDelimiter(rest) + Len(cin.delimiter) - 1)

\* the key folds: it starts with the prefix and the remainder has the
\* delimiter with more after it
Folds(key) ==
    /\ cin.delimiter # <<>>
    /\ HasPrefix(key, cin.prefix)
    /\ DelimiterWithMore(SubSeq(key, Len(cin.prefix) + 1, Len(key)))

FoldPrefix(key) == PrefixThroughDelimiter(SubSeq(key, Len(cin.prefix) + 1, Len(key)))

\* the same with the prefix stripped only where the key has it
FoldsStripped(key) ==
    cin.delimiter # <<>> /\ DelimiterWithMore(TrimPrefix(key, cin.prefix))

FoldPrefixStripped(key) == PrefixThroughDelimiter(TrimPrefix(key, cin.prefix))

ObjectKeys == { cout.result.Contents[n].Key : n \in 1..Len(cout.result.Contents) }
ResultPrefixes ==
    { cout.result.CommonPrefixes[n] : n \in 1..Len(cout.result.CommonPrefixes) }

\* the entries that become plain objects: past the cursor and not folded
IsCandidate(entry) ==
    LET key == BuildObjectKeyFromEntryWithBucket(entry, cin.bucket)
    IN PassesStartAfter(key) /\ ~Folds(key)

Candidates == SelectSeq(cin.entries, IsCandidate)

\* C5: every key the converter presents, as an object key or as the source of
\* a common prefix, is the path rewrite engine's result for the bucket and the
\* entry's original key.
C5_KeysAreRewritten ==
    Converted =>
        /\ \A n \in 1..Len(cout.result.Contents) :
              \E i \in EntryIndexes :
                  cout.result.Contents[n].Key =
                      ApplyPathRewrite(cin.rules, cin.entries[i], KeyOf(i), cin.bucket, <<>>)
        /\ \A n \in 1..Len(cout.result.CommonPrefixes) :
              \E i \in EntryIndexes :
                  LET key == ApplyPathRewrite(cin.rules, cin.entries[i], KeyOf(i), cin.bucket, <<>>)
                  IN Folds(key) /\ cout.result.CommonPrefixes[n] = FoldPrefix(key)

\* C6: with maxResults > 0 the objects returned are exactly the first
\* maxResults entries, in input order, that pass the start-after filter and are
\* not folded; when more such entries exist, exactly maxResults objects are
\* returned and the truncation flag is true.
C6_AtMostMaxResults ==
    (Converted /\ cin.maxKeys > 0) =>
        LET contents == cout.result.Contents
            want == IF Len(Candidates) > cin.maxKeys
                    THEN SubSeq(Candidates, 1, cin.maxKeys) ELSE Candidates
        IN /\ Len(contents) <= cin.maxKeys
           /\ Len(contents) = Len(want)
           /\ \A n \in 1..Len(want) :
                 /\ contents[n].Key = BuildObjectKeyFromEntryWithBucket(want[n], cin.bucket)
                 /\ contents[n].Size = want[n].Size
           /\ (Len(Candidates) > cin.maxKeys =>
                 Len(contents) = cin.maxKeys /\ cout.result.IsTruncated)

\* C6 witness: more entries qualify than maxResults = 2 allows, and two
\* objects were returned.
C6_Witness ==
    /\ Converted /\ cin.maxKeys = 2 /\ Len(cin.entries) = MaxEntries
    /\ Len(Candidates) = MaxEntries
    /\ Len(cout.result.Contents) = 2 /\ cout.result.IsTruncated

\* C7: when the truncation flag is false, every entry whose key passes the
\* start-after cursor is in the result, as a plain object or by its common
\* prefix.
C7_NotTruncatedMeansComplete ==
    (Converted /\ ~cout.result.IsTruncated) =>
        \A i \in EntryIndexes :
            PassesStartAfter(KeyOf(i)) =>
                \/ KeyOf(i) \in ObjectKeys
                \/ Folds(KeyOf(i)) /\ FoldPrefix(KeyOf(i)) \in ResultPrefixes

\* C7 witness: a complete listing under a limit, with objects and a common
\* prefix, and an entry left out by the cursor.
C7_Witness ==
    /\ Converted /\ ~cout.result.IsTruncated /\ cin.maxKeys > 0
    /\ Len(cout.result.Contents) = cin.maxKeys
    /\ cout.result.CommonPrefixes # <<>>
    /\ \E i \in EntryIndexes : ~PassesStartAfter(KeyOf(i))

\* C8: with a start-after cursor, no entry whose key is <= the cursor
\* contributes an object or a common prefix or counts toward maxResults, and
\* the entries after the cursor are the ones the limit is applied to.
C8_StartAfterStrict ==
    (Converted /\ cin.startAfter # <<>>) =>
        /\ \A k \in ObjectKeys : ~StrLE(k, cin.startAfter)
        /\ \A p \in ResultPrefixes :
              \E i \in EntryIndexes :
                  /\ ~StrLE(KeyOf(i), cin.startAfter)
                  /\ Folds(KeyOf(i)) /\ p = FoldPrefix(KeyOf(i))
        /\ Len(cout.result.Contents) =
              IF cin.maxKeys > 0 /\ Len(Candidates) > cin.maxKeys
              THEN cin.maxKeys ELSE Len(Candidates)

\* C8 witness: the cursor equals the key of one entry and is above the key of
\* another; both are left out, and a later entry is listed.
C8_Witness ==
    /\ Converted /\ cin.startAfter # <<>>
    /\ \E i \in EntryIndexes : KeyOf(i) = cin.startAfter
    /\ \E i \in EntryIndexes : KeyOf(i) # cin.startAfter /\ StrLE(KeyOf(i), cin.startAfter)
    /\ cin.maxKeys = 1 /\ Len(cout.result.Contents) = 1

\* what a folding rule (folds, prefix of) makes of the entries: the common
\* prefixes and the objects come from the entries by the rule, and a complete
\* listing has every entry past the cursor on its side of the rule
FoldedBy(folds(_), prefixOf(_)) ==
    /\ \A p \in ResultPrefixes :
          \E i \in EntryIndexes :
              PassesStartAfter(KeyOf(i)) /\ folds(KeyOf(i)) /\ p = prefixOf(KeyOf(i))
    /\ \A k \in ObjectKeys : ~folds(k)
    /\ ~cout.result.IsTruncated =>
          \A i \in EntryIndexes :
              PassesStartAfter(KeyOf(i)) =>
                  IF folds(KeyOf(i))
                  THEN prefixOf(KeyOf(i)) \in ResultPrefixes /\ KeyOf(i) \notin ObjectKeys
                  ELSE KeyOf(i) \in ObjectKeys

C10_PrefixesDistinctUncounted ==
    Converted =>
        LET cps == cout.result.CommonPrefixes
        IN /\ \A m, n \in 1..Len(cps) : m # n => cps[m] # cps[n]
           /\ cout.result.IsTruncated => Len(cout.result.Contents) = cin.maxKeys
           /\ (cin.maxKeys > 0 /\ Len(cout.result.Contents) < cin.maxKeys) =>
                 \A i \in EntryIndexes :
                     (PassesStartAfter(KeyOf(i)) /\ Folds(KeyOf(i))) =>
                         FoldPrefix(KeyOf(i)) \in ResultPrefixes

\* C10 witness: two entries fold into the same prefix, and the result holds
\* more common prefixes than maxResults while it is not truncated.
C10_Witness ==
    /\ Converted /\ cin.maxKeys = 1 /\ ~cout.result.IsTruncated
    /\ Len(cout.result.CommonPrefixes) > cin.maxKeys
    /\ \E i, j \in EntryIndexes :
          i # j /\ Folds(KeyOf(i)) /\ Folds(KeyOf(j)) /\ FoldPrefix(KeyOf(i)) = FoldPrefix(KeyOf(j))

\* the number of entries before the i-th that become plain objects when no
\* limit stops the loop
CandidatesBefore(i) == Len(SelectSeq(SubSeq(cin.entries, 1, i - 1), IsCandidate))

C12_ZeroMeansUnlimited ==
    (Converted /\ cin.maxKeys = 0) =>
        /\ ~cout.result.IsTruncated
        /\ Len(cout.result.Contents) = Len(Candidates)
        /\ \A n \in 1..Len(Candidates) :
              cout.result.Contents[n].Key =
                  BuildObjectKeyFromEntryWithBucket(Candidates[n], cin.bucket)
        /\ \A i \in EntryIndexes :
              (PassesStartAfter(KeyOf(i)) /\ Folds(KeyOf(i))) =>
                  FoldPrefix(KeyOf(i)) \in ResultPrefixes

\* C12 witness: maxResults = 0 and the longest entry sequence, all of it
\* returned as objects.
C12_Witness ==
    /\ Converted /\ cin.maxKeys = 0 /\ Len(cin.entries) = MaxEntries
    /\ Len(cout.result.Contents) = MaxEntries /\ ~cout.result.IsTruncated

\* the i-th entry's key is turned into a common prefix when it is processed
FoldsWhenProcessed(i) ==
    cin.delimiter # <<>> /\ ShouldBeCommonPrefix(KeyOf(i), cin.prefix, cin.delimiter)

\* the i-th entry becomes a plain object when it is processed
ObjectWhenProcessed(i) == PassesStartAfter(KeyOf(i)) /\ ~FoldsWhenProcessed(i)

\* the entries the loop did not process: the ones from the first entry on
\* before which maxKeys plain objects were added
Unprocessed ==
    { i \in EntryIndexes :
        Cardinality({ j \in 1..(i - 1) : ObjectWhenProcessed(j) }) >= cin.maxKeys }

\* processing the i-th entry after the ones in the result would add a plain
\* object or a common prefix the result does not hold
WouldAdd(i) ==
    /\ PassesStartAfter(KeyOf(i))
    /\ FoldsWhenProcessed(i) =>
          GetCommonPrefix(KeyOf(i), cin.prefix, cin.delimiter) \notin ResultPrefixes

\* C28: when the converter returns isTruncated = true, at least one entry it
\* did not process would have added a new plain object or a common prefix not
\* yet in the result; the flag is not set when all remaining entries are
\* skipped by the start-after cursor or fold into common prefixes already in
\* the result.
C28_TruncatedOnlyIfLeftOut ==
    (Converted /\ cout.result.IsTruncated) => \E i \in Unprocessed : WouldAdd(i)

\* whenever the flag is set the limit was reached and an entry was left
\* unprocessed
C28_TruncatedWithEntriesLeft ==
    (Converted /\ cout.result.IsTruncated) =>
        /\ cin.maxKeys > 0 /\ Len(cout.result.Contents) = cin.maxKeys
        /\ Unprocessed # {}

-----------------------------------------------------------------------------
(* Claims about the path rewrite engine, checked under SpecRewrite *)

Rewritten == cin.op = "rewrite" /\ cout # Idle

\* the rule is applicable to the request's bucket
Applicable(rule) == rule.Bucket = "*" \/ rule.Bucket = cin.bucket

\* the rule matches the original key: its pattern compiles and matches, and
\* its template yields a key
Matches(rule) ==
    /\ RegexCompiles(rule.Pattern)
    /\ RegexMatch(rule.Pattern, cin.subject.originalKey)
    /\ ~ExecuteTemplate(cin.subject.entry, rule.Template, cin.subject.originalKey, <<>>).err

\* the key the rule's template gives
RuleResult(rule) ==
    ExecuteTemplate(cin.subject.entry, rule.Template, cin.subject.originalKey, <<>>).out

\* the places in the configured list of the applicable, matching rules of the
\* highest priority among such rules
TopRules ==
    { i \in 1..Len(cin.rules) :
        /\ Applicable(cin.rules[i]) /\ Matches(cin.rules[i])
        /\ \A j \in 1..Len(cin.rules) :
              (Applicable(cin.rules[j]) /\ Matches(cin.rules[j])) =>
                  cin.rules[j].Priority <= cin.rules[i].Priority }

\* the rules of the priority example
ExampleRules ==
    << Rule("*", PatAll, TplUnderX, 100), Rule("Archive", PatAll, TplUnderY, 200),
       Rule("Tagged-Data", PatAll, TplOriginal, 300) >>

\* C19: the key returned is the result of an applicable rule matching the
\* original key such that no applicable matching rule has a higher priority
\* (the original key when there is none); rules of lower priority and rules
\* of another bucket do not supply it.  With rules [100 wildcard, 200
\* "Archive", 300 "Tagged-Data"], bucket "Archive" gets the priority-200
\* rule's result and another bucket the wildcard rule's.
C19_FirstMatchByPriority ==
    Rewritten =>
        /\ IF TopRules = {} THEN cout.key = cin.subject.originalKey
           ELSE \E i \in TopRules : cout.key = RuleResult(cin.rules[i])
        /\ cin.rules = ExampleRules =>
              cout.key = RuleResult(ExampleRules[IF cin.bucket = "Archive" THEN 2 ELSE 1])

\* C19 witness: the example's rules with bucket "Archive": the key is the one
\* of the priority-200 rule, not the wildcard rule's.
C19_Witness ==
    /\ Rewritten /\ cin.rules = ExampleRules /\ cin.bucket = "Archive"
    /\ cout.key = RuleResult(ExampleRules[2]) /\ cout.key # RuleResult(ExampleRules[1])

\* the place of the first rule of TopRules in the configured list
FirstTopRule == CHOOSE i \in TopRules : \A j \in TopRules : i <= j

\* C20: among the applicable matching rules of equal (highest) priority the
\* one that comes first in the configured rule list is applied, for every
\* rule list.
C20_StableOnTies ==
    (Rewritten /\ TopRules # {}) => cout.key = RuleResult(cin.rules[FirstTopRule])

\* C20 holds for the rule lists that are sorted by insertion
C20_StableOnShortLists ==
    (Rewritten /\ TopRules # {} /\ Len(cin.rules) <= MaxInsertion) =>
        cout.key = RuleResult(cin.rules[FirstTopRule])

\* the rules in the order in which the call evaluates them
Evaluated == SortByPriority(cin.rules)

\* the places in the order of evaluation of the applicable rules that match
GoodPlaces == { i \in 1..Len(Evaluated) : Applicable(Evaluated[i]) /\ Matches(Evaluated[i]) }

\* the rule fails: its pattern does not compile, or its pattern matches and
\* its template does not parse or does not execute
FailsBy(rule) ==
    IF ~RegexCompiles(rule.Pattern) THEN "compile"
    ELSE IF ~RegexMatch(rule.Pattern, cin.subject.originalKey) THEN "none"
    ELSE IF rule.Template = TplBroken THEN "parse"
    ELSE IF ExecuteTemplate(cin.subject.entry, rule.Template,
                            cin.subject.originalKey, <<>>).err THEN "execute"
    ELSE "none"

\* C22: the call always returns a key; a rule whose pattern does not compile,
\* whose template does not parse or whose template does not execute counts as
\* not matching and the next rule in priority order is evaluated: the key is
\* the result of the first applicable rule in the order of evaluation that
\* matches without failing, and the original key when every rule fails or
\* does not match.
C22_FailingRulesAreSkipped ==
    Rewritten =>
        /\ cout.key \in Seq({CharOrder[i] : i \in 1..Len(CharOrder)})
        /\ IF GoodPlaces = {} THEN cout.key = cin.subject.originalKey
           ELSE \E i \in GoodPlaces :
                    /\ \A j \in GoodPlaces : i <= j
                    /\ cout.key = RuleResult(Evaluated[i])

\* C22 witness: rules failing in each of the three ways are evaluated before
\* the rule that supplies the key, and the key is not the original key.
C22_Witness ==
    /\ Rewritten /\ GoodPlaces # {}
    /\ \E i \in GoodPlaces :
          /\ \A j \in GoodPlaces : i <= j
          /\ cout.key = RuleResult(Evaluated[i])
          /\ cout.key # cin.subject.originalKey
          /\ \A kind \in {"compile", "parse", "execute"} :
                \E j \in 1..(i - 1) : Applicable(Evaluated[j]) /\ FailsBy(Evaluated[j]) = kind

\* C22 witness of the second case: every applicable rule fails or does not
\* match, one of them fails, and the original key is returned.
C22_AllFail ==
    /\ Rewritten /\ GoodPlaces = {} /\ cout.key = cin.subject.originalKey
    /\ \E j \in 1..Len(Evaluated) : Applicable(Evaluated[j]) /\ FailsBy(Evaluated[j]) # "none"

\* the rule's pattern matches the original key
PatternMatches(rule) ==
    RegexCompiles(rule.Pattern) /\ RegexMatch(rule.Pattern, cin.subject.originalKey)

\* no rule that is applicable to the request's bucket has a pattern matching
\* the original key
NoApplicablePattern ==
    \A i \in 1..Len(cin.rules) : Applicable(cin.rules[i]) => ~PatternMatches(cin.rules[i])

\* C23: the call returns the original key unchanged when no rules are
\* configured, and when no rule applicable to the bucket has a pattern
\* matching the original key.
C23_NoMatchKeepsKey ==
    (Rewritten /\ (cin.rules = <<>> \/ NoApplicablePattern)) =>
        cout.key = cin.subject.originalKey

\* C23 witness: rules are configured, one is applicable and its pattern does
\* not match, another one's pattern matches and it is of another bucket and
\* would give another key; the original key is returned.
C23_Witness ==
    /\ Rewritten /\ cin.rules # <<>> /\ NoApplicablePattern
    /\ \E i \in 1..Len(cin.rules) :
          Applicable(cin.rules[i]) /\ RegexCompiles(cin.rules[i].Pattern)
    /\ \E i \in 1..Len(cin.rules) :
          /\ ~Applicable(cin.rules[i]) /\ Matches(cin.rules[i])
          /\ RuleResult(cin.rules[i]) # cin.subject.originalKey
    /\ cout.key = cin.subject.originalKey

\* C23 witness of the first case: no rules are configured.
C23_NoRules == Rewritten /\ cin.rules = <<>> /\ cout.key = cin.subject.originalKey

-----------------------------------------------------------------------------
(* Claims about pagination, checked under SpecPages *)

\* the keys of all pages so far, in the order returned
RECURSIVE Flatten(_)
Flatten(pages) == IF pages = <<>> THEN <<>> ELSE pages[1] \o Flatten(Tail(pages))

PagedKeys == Flatten(cout.pages)

EntryKeys ==
    { BuildObjectKeyFromEntryWithBucket(cin.entries[i], cin.bucket) : i \in 1..Len(cin.entries) }

\* C27: with distinct keys delivered in upstream order, no delimiter and a
\* page size above 0, the pages obtained by calling the converter with the
\* cursor at the last key of the page before, up to the first page that is
\* not truncated, hold every entry's key exactly once.
C27_PaginationComplete ==
    (cin.op = "pages" /\ cout.done) =>
        /\ { PagedKeys[n] : n \in 1..Len(PagedKeys) } = EntryKeys
        /\ \A m, n \in 1..Len(PagedKeys) : m # n => PagedKeys[m] # PagedKeys[n]

\* the upstream order of the entries is also the ascending order of their keys
KeyOrdered ==
    \A i \in 1..(Len(cin.entries) - 1) :
        StrLE(BuildObjectKeyFromEntryWithBucket(cin.entries[i], cin.bucket),
              BuildObjectKeyFromEntryWithBucket(cin.entries[i + 1], cin.bucket))

\* C27 holds for the entry lists whose upstream order is the order of their keys
C27_CompleteWhenKeyOrdered ==
    (cin.op = "pages" /\ KeyOrdered) =>
        /\ cout.done => { PagedKeys[n] : n \in 1..Len(PagedKeys) } = EntryKeys
        /\ \A m, n \in 1..Len(PagedKeys) : m # n => PagedKeys[m] # PagedKeys[n]

-----------------------------------------------------------------------------
(* Claims about object keys, checked under SpecHead *)

\* the entry has parent path "/", a file name and no full path
UnderRoot(entry) ==
    entry.FullPath = <<>> /\ entry.ParentPath = <<"/">> /\ entry.Filename # <<>>

\* C25: no listed key starts with the path separator: an entry with parent
\* path "/", file name f and no full path is listed with key f, and a
\* HeadObject request for key f, f being the file name of such an entry among
\* the upstream entries, finds an entry.
C25_NoLeadingSeparator ==
    /\ (cout # Idle /\ cout.op \in {"v1", "v2"}) =>
          \A i \in 1..Len(cin.entries) :
              /\ ~HasPrefix(cout.result.Contents[i].Key, <<"/">>)
              /\ UnderRoot(cin.entries[i]) =>
                    cout.result.Contents[i].Key = cin.entries[i].Filename
    /\ (cout # Idle /\ cout.op = "head"
          /\ \E i \in 1..Len(cin.entries) :
                UnderRoot(cin.entries[i]) /\ cin.entries[i].Filename = cin.key) =>
          cout.result.err = Nil

\* the keys built from a full path or from a parent path other than "/" have
\* no leading separator, and HeadObject finds them
C25_OtherKeysFound ==
    /\ (cout # Idle /\ cout.op \in {"v1", "v2"}) =>
          \A i \in 1..Len(cin.entries) :
              ~UnderRoot(cin.entries[i]) => ~HasPrefix(cout.result.Contents[i].Key, <<"/">>)
    /\ (cout # Idle /\ cout.op = "head"
          /\ \E i \in 1..Len(cin.entries) :
                /\ ~UnderRoot(cin.entries[i])
                /\ TrimPrefix(BuildObjectKeyFromEntryWithBucket(cin.entries[i], cin.bucket),
                              <<"/">>) = cin.key) =>
          cout.result.err = Nil

-----------------------------------------------------------------------------
(* Claims about size formatting, checked under SpecFormat *)

\* the number a size of at most three base-1024 digits stands for
ValueOf(size) ==
    (IF Len(size) >= 1 THEN size[1] ELSE 0) + (IF Len(size) >= 2 THEN size[2] * 1024 ELSE 0)
        + (IF Len(size) >= 3 THEN size[3] * 1024 * 1024 ELSE 0)

\* a size with zero digits added up to n digits
Padded(size, n) == size \o [i \in 1..(n - Len(size)) |-> 0]

\* q is the integer quotient of size by 1024^k: size = q * 1024^k + low for
\* a number low of k digits
IsQuotient(q, size, k) ==
    Canonical(q) = q /\ Canonical(SubSeq(Padded(size, k), 1, k) \o q) = size

\* the integer quotient of size by 1024^k
QuotientOf(size, k) ==
    CHOOSE q \in {SubSeq(size, i, Len(size)) : i \in 1..(Len(size) + 1)} : IsQuotient(q, size, k)

\* the decimal digits of n \div 1024^k for a number n below 1024^3
SmallQuotientText(n, k) == Itoa(IF k >= 3 THEN 0 ELSE n \div (1024 ^ k))

UnitPower == [b |-> 0, kb |-> 1, mb |-> 2, gb |-> 3, tb |-> 4]
UnitSuffix == << <<"B">>, <<"K", "B">>, <<"M", "B">>, <<"G", "B">>, <<"T", "B">> >>

\* the largest unit, as a power of 1024 up to the fourth, in which size is at
\* least 1; bytes when there is none
AutoPower(size) ==
    LET ks == { k \in 0..4 : QuotientOf(size, k) # <<>> }
    IN IF ks = {} THEN 0 ELSE CHOOSE k \in ks : \A j \in ks : j <= k

\* C26: for a size of 0 or more, an explicit unit b, kb, mb, gb or tb gives
\* the decimal digits of the integer quotient of size by 1024^k and nothing
\* else; "auto" gives the quotient in the largest unit in which the value is
\* at least 1 (bytes below 1024) followed by the unit's suffix; 1048576 in
\* "mb" is "1" and 1024 in "auto" is "1KB".
C26_FormatSize ==
    (cin.op = "format" /\ cout # Idle) =>
        /\ cin.unit \in DOMAIN UnitPower =>
              LET k == UnitPower[cin.unit]
              IN /\ cout.text = Decimal(QuotientOf(cin.size, k))
                 /\ Len(cin.size) <= 3 => cout.text = SmallQuotientText(ValueOf(cin.size), k)
        /\ cin.unit = "auto" =>
              LET k == AutoPower(cin.size)
              IN /\ cout.text = Decimal(QuotientOf(cin.size, k)) \o UnitSuffix[k + 1]
                 /\ Len(cin.size) <= 3 =>
                       /\ cout.text = SmallQuotientText(ValueOf(cin.size), k) \o UnitSuffix[k + 1]
                       /\ k = 0 <=> ValueOf(cin.size) < 1024
                       /\ k = 1 <=> ValueOf(cin.size) \in 1024..(1024 * 1024 - 1)
        /\ (Len(cin.size) <= 3 /\ ValueOf(cin.size) = 1048576 /\ cin.unit = "mb") =>
              cout.text = <<"1">>
        /\ (Len(cin.size) <= 3 /\ ValueOf(cin.size) = 1024 /\ cin.unit = "auto") =>
              cout.text = <<"1", "K", "B">>

\* C26 witness: 1024 bytes formatted with "auto" give "1KB".
C26_Witness ==
    /\ cin.op = "format" /\ cout # Idle /\ cin.unit = "auto"
    /\ Len(cin.size) = 2 /\ ValueOf(cin.size) = 1024
    /\ cout.text = <<"1", "K", "B">>

\* C26 witness of a size above a terabyte: 5 * 1024^4 + 1023 * 1024^3 bytes in
\* "gb" give "6143" and in "auto" "5TB".
C26_Terabytes ==
    /\ cin.op = "format" /\ cout # Idle /\ cin.size = <<0, 0, 0, 1023, 5>>
    /\ \/ cin.unit = "gb" /\ cout.text = <<"6", "1", "4", "3">>
       \/ cin.unit = "auto" /\ cout.text = <<"5", "T", "B">>

-----------------------------------------------------------------------------
(* Claims about loading a configuration, checked under SpecLoad *)

\* the rule has a non-empty bucket, pattern and template and a priority of 0 or more
ValidRule(rule) ==
    rule.Bucket # "" /\ rule.Pattern # "" /\ rule.Template # "" /\ rule.Priority >= 0

AllValid(rules) == \A i \in 1..Len(rules) : ValidRule(rules[i])

\* C24: loading a rule set fails, and yields no configuration at all, if any
\* rule has an empty bucket, an empty pattern, an empty template or a
\* negative priority; it succeeds and yields the rules when every rule has
\* the three non-empty and a priority of 0 or more; validating an absent
\* configuration succeeds, and validation fails for the same rule sets.
C24_LoadValidatesEveryRule ==
    /\ (cin.op = "load" /\ cin.kind = "rules" /\ cout # Idle) =>
          IF AllValid(cin.rules)
          THEN cout.result = [config |-> PathRewriteConfig(cin.rules), err |-> Nil]
          ELSE cout.result.err # Nil /\ cout.result.config = Nil
    /\ (cin.op = "validate" /\ cout # Idle) =>
          IF cin.config = Nil THEN cout.err = Nil
          ELSE (cout.err = Nil) <=> AllValid(cin.config.Rules)

\* C24 witness: a file of two rules, the first valid and the second with a
\* negative priority as its only fault, is loaded: an error and no
\* configuration.
C24_Witness ==
    /\ cin.op = "load" /\ cin.kind = "rules" /\ cout # Idle
    /\ Len(cin.rules) = 2 /\ ValidRule(cin.rules[1])
    /\ cin.rules[2] = [cin.rules[1] EXCEPT !.Priority = -1]
    /\ cout.result.err # Nil /\ cout.result.config = Nil

\* C24 witness of the absent configuration: validating nil gives no error.
C24_AbsentIsValid == cin.op = "validate" /\ cin.config = Nil /\ cout # Idle /\ cout.err = Nil

-----------------------------------------------------------------------------
(* Claims about repeated rewriting, checked under SpecRepeat *)

\* C21: any two calls of rewrite with the same entry, rule set, original key
\* and scope return the identical key, for every template the engine accepts,
\* the ones using the union of explicit and inherited tags included, and a
\* call leaves the configured rule list unchanged.
C21_RepeatedCallsAgree ==
    /\ [](cin.op = "repeat" =>
             \A i, j \in 1..Len(cout.keys) : cout.keys[i] = cout.keys[j])
    /\ [][cin.op = "repeat" => cin'.rules = cin.rules]_vars

\* the rule the call applies uses the union of the tags, and the entry has
\* more than one tag
UsesTagUnion ==
    \E i \in 1..Len(cin.rules) :
        /\ cin.rules[i].Template = TplAllTags
        /\ Cardinality(TagMap(cin.subject.entry)) > 1

\* C21 holds for the calls in which no template joins two or more tags of
\* the union, and no call changes the configured rule list.
C21_AgreeWithoutTagUnion ==
    /\ []((cin.op = "repeat" /\ ~UsesTagUnion) =>
             \A i, j \in 1..Len(cout.keys) : cout.keys[i] = cout.keys[j])
    /\ [][cin.op = "repeat" => cin'.rules = cin.rules]_vars

====
